---------------------------- MODULE Spec2Model ----------------------------
(***************************************************************************)
(* Voxta voice agent: the intent classification pipeline of                *)
(* EnhancedAIVoiceProcessor (src/python/ai_voice_processor.py) and the     *)
(* session state kept by process_voice_command.                            *)
(*                                                                         *)
(* Texts are TLA+ strings handled character by character (Len, SubSeq and  *)
(* \o apply to strings in TLC).  Confidences are Python floats in the      *)
(* source; the model computes them exactly, as rationals <<num, den>>.     *)
(* Monetary amounts are counted in cents.                                  *)
(***************************************************************************)
EXTENDS Integers, Sequences, FiniteSets, TLC

VARIABLES
    openai_api_key,        \* self.openai_api_key: TRUE when a key is configured
    conversation_history,  \* self.conversation_history
    user_context,          \* self.user_context: user id -> context record
    session_stats,         \* self.session_stats
    clock,                 \* datetime.now(): one tick per process_voice_command call
    returned,              \* what the last process_voice_command call returned
    log,                   \* every conversation entry ever appended, in order
    calls,                 \* the process_voice_command calls of concurrent requests in progress
    agent,                 \* the voice agent: its user_session and performance_metrics
    posted,                \* the bids the agent posted to the service, in order
    input,                 \* the utterance handed to a directly called method
    fn,                    \* the method called directly, "" before any call
    arg,                   \* the argument of that call
    ret,                   \* what that call returned
    session_data,          \* telephone agent: caller -> the data stored for the caller
    bid_requests,          \* the bid requests the telephone agent posted, in order
    twiml,                 \* the TwiML response of the last telephone request
    form,                  \* request.form of the last telephone request, with its path
    loop,                  \* start_enhanced_listening: "off" before it, "on" in its loop, "over" after
    consecutive_errors,    \* the local counter of start_enhanced_listening
    heard,                 \* what listen_enhanced returned to the loop in its last iteration
    silences,              \* the loop's listen attempts without text in a row, modulo three
    confirmation,          \* what it returned to the handler asking for a confirmation
    spoken,                \* what the agent said in the last step, in order
    success_rate           \* the success rate of the session summary, in percent

vars == <<openai_api_key, conversation_history, user_context, session_stats,
          clock, returned, log, calls, agent, posted, input, fn, arg, ret,
          session_data, bid_requests, twiml, form,
          loop, consecutive_errors, heard, silences, confirmation, spoken, success_rate>>

sessionVars == <<openai_api_key, conversation_history, user_context,
                 session_stats, clock, returned, log, calls, agent, posted>>

unitVars == <<input, fn, arg, ret>>

phoneVars == <<session_data, bid_requests, twiml, form>>

loopVars == <<loop, consecutive_errors, heard, silences, confirmation, spoken,
              success_rate>>

-----------------------------------------------------------------------------
(* Characters and the str methods the source uses.                         *)

Char(s, i) == SubSeq(s, i, i)

Digits == {"0", "1", "2", "3", "4", "5", "6", "7", "8", "9"}

UpperAlphabet == "ABCDEFGHIJKLMNOPQRSTUVWXYZ"

LowerAlphabet == "abcdefghijklmnopqrstuvwxyz"

\* \w of the re module, on ASCII text
WordChars ==
    {Char(UpperAlphabet, i) : i \in 1..26} \cup {Char(LowerAlphabet, i) : i \in 1..26}
    \cup Digits \cup {"_"}

\* \s of the re module and the separators of str.split(), on ASCII text
Whitespace == {" ", "\t", "\n", "\r"}

Min(S) == CHOOSE x \in S : \A y \in S : x <= y

Max(S) == CHOOSE x \in S : \A y \in S : x >= y

\* the k-th smallest element of a set of integers
Nth(S, k) == CHOOSE x \in S : Cardinality({y \in S : y < x}) = k - 1

\* the concatenation of the strings f[lo], ..., f[hi]
RECURSIVE CatRange(_, _, _)
CatRange(f, lo, hi) ==
    IF lo > hi THEN ""
    ELSE IF lo = hi THEN f[lo]
    ELSE LET mid == (lo + hi) \div 2
         IN  CatRange(f, lo, mid) \o CatRange(f, mid + 1, hi)

LowerChar(c) ==
    IF \E i \in 1..26 : Char(UpperAlphabet, i) = c
    THEN Char(LowerAlphabet, CHOOSE i \in 1..26 : Char(UpperAlphabet, i) = c)
    ELSE c

\* str.lower()
lower(s) == CatRange([i \in 1..Len(s) |-> LowerChar(Char(s, i))], 1, Len(s))

\* str.strip()
strip(s) ==
    LET solid == {i \in 1..Len(s) : Char(s, i) \notin Whitespace}
    IN  IF solid = {} THEN "" ELSE SubSeq(s, Min(solid), Max(solid))

\* sub in s
contains(s, sub) ==
    \E i \in 1..(Len(s) - Len(sub) + 1) : SubSeq(s, i, i + Len(sub) - 1) = sub

\* str.find from position `from` (1-based); 0 when absent
find(s, sub, from) ==
    LET at == {i \in from..(Len(s) - Len(sub) + 1) : SubSeq(s, i, i + Len(sub) - 1) = sub}
    IN  IF at = {} THEN 0 ELSE Min(at)

\* str.replace(old, new): every non-overlapping occurrence, left to right
RECURSIVE replaceFrom(_, _, _, _)
replaceFrom(s, old, new, from) ==
    LET i == find(s, old, from)
    IN  IF i = 0 THEN SubSeq(s, from, Len(s))
        ELSE SubSeq(s, from, i - 1) \o new \o replaceFrom(s, old, new, i + Len(old))

\* str.split(): the maximal runs of non-whitespace, in order
split(s) ==
    LET n      == Len(s)
        starts == {i \in 1..n : /\ Char(s, i) \notin Whitespace
                                /\ (i = 1 \/ Char(s, i - 1) \in Whitespace)}
        stop(i) == Min({j \in i..n : j = n \/ Char(s, j + 1) \in Whitespace})
    IN  [k \in 1..Cardinality(starts) |->
            LET i == Nth(starts, k) IN SubSeq(s, i, stop(i))]

\* ' '.join(words)
join(words) ==
    LET m == Len(words)
    IN  CatRange([k \in 1..(2 * m - 1) |->
                    IF k % 2 = 1 THEN words[(k + 1) \div 2] ELSE " "], 1, 2 * m - 1)

-----------------------------------------------------------------------------
(* Regular expressions as the re module matches them: a backtracking       *)
(* matcher whose results come in the order re tries them, so that the head *)
(* of the list is the match re.search reports.  A result is the position   *)
(* after the match and the text captured by group 1.                       *)

Lit(str)      == [op |-> "lit", s |-> str]
OneOf(cs)     == [op |-> "set", cs |-> cs]
Rep(cs, least) == [op |-> "rep", cs |-> cs, least |-> least]  \* greedy cs+ / cs*
Opt(r)        == [op |-> "opt", r |-> r]                      \* greedy r?
Alt(rs)       == [op |-> "alt", rs |-> rs]
Concat(rs)    == [op |-> "cat", rs |-> rs]
Grp(r)        == [op |-> "grp", r |-> r]
BOL           == [op |-> "bol"]
EOL           == [op |-> "eol"]
WB            == [op |-> "wb"]

NoGroup == "<none>"

RECURSIVE Match(_, _, _, _), MatchAlt(_, _, _, _, _), MatchCat(_, _, _, _, _),
          Chain(_, _, _, _, _)
Match(r, s, i, cap) ==
    LET n == Len(s)
        here == << [end |-> i, cap |-> cap] >>
    IN  CASE r.op = "lit" ->
                IF i + Len(r.s) - 1 <= n /\ SubSeq(s, i, i + Len(r.s) - 1) = r.s
                THEN << [end |-> i + Len(r.s), cap |-> cap] >> ELSE << >>
          [] r.op = "set" ->
                IF i <= n /\ Char(s, i) \in r.cs
                THEN << [end |-> i + 1, cap |-> cap] >> ELSE << >>
          [] r.op = "rep" ->
                LET run == Max({k \in 0..(n - i + 1) :
                                  \A j \in i..(i + k - 1) : Char(s, j) \in r.cs})
                IN  IF run < r.least THEN << >>
                    ELSE [k \in 1..(run - r.least + 1) |->
                            [end |-> i + run - (k - 1), cap |-> cap]]
          [] r.op = "opt" -> Match(r.r, s, i, cap) \o here
          [] r.op = "alt" -> MatchAlt(r.rs, 1, s, i, cap)
          [] r.op = "cat" -> MatchCat(r.rs, 1, s, i, cap)
          [] r.op = "grp" ->
                LET inner == Match(r.r, s, i, cap)
                IN  [k \in 1..Len(inner) |->
                        [end |-> inner[k].end, cap |-> SubSeq(s, i, inner[k].end - 1)]]
          [] r.op = "bol" -> IF i = 1 THEN here ELSE << >>
          [] r.op = "eol" ->
                IF i = n + 1 \/ (i = n /\ Char(s, n) = "\n") THEN here ELSE << >>
          [] r.op = "wb" ->
                LET before == i > 1 /\ Char(s, i - 1) \in WordChars
                    after  == i <= n /\ Char(s, i) \in WordChars
                IN  IF before # after THEN here ELSE << >>

MatchAlt(rs, k, s, i, cap) ==
    IF k > Len(rs) THEN << >>
    ELSE Match(rs[k], s, i, cap) \o MatchAlt(rs, k + 1, s, i, cap)

MatchCat(rs, k, s, i, cap) ==
    IF k > Len(rs) THEN << [end |-> i, cap |-> cap] >>
    ELSE Chain(rs, k, s, Match(rs[k], s, i, cap), 1)

Chain(rs, k, s, ms, j) ==
    IF j > Len(ms) THEN << >>
    ELSE MatchCat(rs, k + 1, s, ms[j].end, ms[j].cap) \o Chain(rs, k, s, ms, j + 1)

NoMatch == [found |-> FALSE, start |-> 0, end |-> 0, group |-> NoGroup]

\* the match at the leftmost position >= from where the pattern matches
searchFrom(pattern, s, from) ==
    LET at == {i \in from..(Len(s) + 1) : Match(pattern, s, i, NoGroup) # << >>}
    IN  IF at = {} THEN NoMatch
        ELSE LET i == Min(at)
                 m == Match(pattern, s, i, NoGroup)[1]
             IN  [found |-> TRUE, start |-> i, end |-> m.end, group |-> m.cap]

\* re.search(pattern, text, re.IGNORECASE): the patterns hold no upper-case
\* letter, and the captured group holds digits and "." only
re_search(pattern, text) == searchFrom(pattern, lower(text), 1)

\* re.findall(pattern, text, re.IGNORECASE) for a pattern with one group:
\* the group of every non-overlapping match, left to right
RECURSIVE findallFrom(_, _, _), collect(_, _, _)
findallFrom(pattern, s, from) == collect(pattern, s, searchFrom(pattern, s, from))

\* the group of the match m, then the matches after it; an empty match moves on by one
collect(pattern, s, m) ==
    IF ~m.found THEN << >>
    ELSE << m.group >> \o
         findallFrom(pattern, s, IF m.end > m.start THEN m.end ELSE m.end + 1)

re_findall(pattern, text) == findallFrom(pattern, lower(text), 1)

-----------------------------------------------------------------------------
(* _initialize_patterns: the intent registry.                              *)

S1 == Rep(Whitespace, 1)                                       \* \s+
S0 == Rep(Whitespace, 0)                                       \* \s*
D  == OneOf(Digits)                                            \* \d
NUM == Grp(Concat(<<Rep(Digits, 1), Opt(Concat(<<Lit("."), D, D>>))>>))  \* (\d+(?:\.\d{2})?)
DOLLAR == Opt(Lit("$"))                                        \* (?:[$]?)
Plural(w) == Concat(<<Lit(w), Opt(Lit("s"))>>)                 \* w followed by s?

bidding_patterns == <<
    \* (?:bid|place\s+(?:a\s+)?bid(?:\s+of)?)\s+(?:[$]?)(\d+(?:\.\d{2})?)
    Concat(<<Alt(<<Lit("bid"),
                   Concat(<<Lit("place"), S1, Opt(Concat(<<Lit("a"), S1>>)), Lit("bid"),
                            Opt(Concat(<<S1, Lit("of")>>))>>)>>),
             S1, DOLLAR, NUM>>),
    \* (?:offer|put\s+(?:in|up))\s+(?:[$]?)(\d+(?:\.\d{2})?)
    Concat(<<Alt(<<Lit("offer"), Concat(<<Lit("put"), S1, Alt(<<Lit("in"), Lit("up")>>)>>)>>),
             S1, DOLLAR, NUM>>),
    \* (?:[$]?)(\d+(?:\.\d{2})?)\s+(?:dollars?|bucks?|usd)
    Concat(<<DOLLAR, NUM, S1, Alt(<<Plural("dollar"), Plural("buck"), Lit("usd")>>)>>),
    \* go\s+(?:[$]?)(\d+(?:\.\d{2})?)
    Concat(<<Lit("go"), S1, DOLLAR, NUM>>),
    \* raise\s+(?:to\s+)?(?:[$]?)(\d+(?:\.\d{2})?)
    Concat(<<Lit("raise"), S1, Opt(Concat(<<Lit("to"), S1>>)), DOLLAR, NUM>>),
    \* increase\s+(?:to\s+)?(?:[$]?)(\d+(?:\.\d{2})?)
    Concat(<<Lit("increase"), S1, Opt(Concat(<<Lit("to"), S1>>)), DOLLAR, NUM>>),
    \* i\s+(?:want\s+to\s+|will\s+)?bid\s+(?:[$]?)(\d+(?:\.\d{2})?)
    Concat(<<Lit("i"), S1,
             Opt(Alt(<<Concat(<<Lit("want"), S1, Lit("to"), S1>>), Concat(<<Lit("will"), S1>>)>>)),
             Lit("bid"), S1, DOLLAR, NUM>>),
    \* let\s+me\s+bid\s+(?:[$]?)(\d+(?:\.\d{2})?)
    Concat(<<Lit("let"), S1, Lit("me"), S1, Lit("bid"), S1, DOLLAR, NUM>>),
    \* my\s+bid\s+is\s+(?:[$]?)(\d+(?:\.\d{2})?)
    Concat(<<Lit("my"), S1, Lit("bid"), S1, Lit("is"), S1, DOLLAR, NUM>>),
    \* (?:[$]?)(\d+(?:\.\d{2})?)(?:\s+(?:please|now|dollars?))?$
    Concat(<<DOLLAR, NUM,
             Opt(Concat(<<S1, Alt(<<Lit("please"), Lit("now"), Plural("dollar")>>)>>)), EOL>>),
    \* make\s+it\s+(?:[$]?)(\d+(?:\.\d{2})?)
    Concat(<<Lit("make"), S1, Lit("it"), S1, DOLLAR, NUM>>),
    \* (?:i\s+)?(?:ll\s+)?take\s+it\s+for\s+(?:[$]?)(\d+(?:\.\d{2})?)
    Concat(<<Opt(Concat(<<Lit("i"), S1>>)), Opt(Concat(<<Lit("ll"), S1>>)),
             Lit("take"), S1, Lit("it"), S1, Lit("for"), S1, DOLLAR, NUM>>) >>

listing_patterns == <<
    \* (?:list|show|display)\s+(?:all\s+)?(?:active\s+)?auctions?
    Concat(<<Alt(<<Lit("list"), Lit("show"), Lit("display")>>), S1,
             Opt(Concat(<<Lit("all"), S1>>)), Opt(Concat(<<Lit("active"), S1>>)),
             Plural("auction")>>),
    \* what\s+auctions?\s+(?:are\s+)?(?:available|active)
    Concat(<<Lit("what"), S1, Plural("auction"), S1, Opt(Concat(<<Lit("are"), S1>>)),
             Alt(<<Lit("available"), Lit("active")>>)>>),
    \* show\s+me\s+(?:the\s+)?auctions?
    Concat(<<Lit("show"), S1, Lit("me"), S1, Opt(Concat(<<Lit("the"), S1>>)),
             Plural("auction")>>),
    \* available\s+auctions?
    Concat(<<Lit("available"), S1, Plural("auction")>>),
    \* current\s+auctions?
    Concat(<<Lit("current"), S1, Plural("auction")>>),
    \* auctions?\s+(?:list|available)
    Concat(<<Plural("auction"), S1, Alt(<<Lit("list"), Lit("available")>>)>>),
    \* ^auctions?$
    Concat(<<BOL, Plural("auction"), EOL>>),
    \* what\s+(?:is|are)\s+(?:available|for\s+sale)
    Concat(<<Lit("what"), S1, Alt(<<Lit("is"), Lit("are")>>), S1,
             Alt(<<Lit("available"), Concat(<<Lit("for"), S1, Lit("sale")>>)>>)>>),
    \* browse\s+(?:items|auctions?)
    Concat(<<Lit("browse"), S1, Alt(<<Lit("items"), Plural("auction")>>)>>) >>

status_patterns == <<
    \* (?:current|highest|latest)\s+bid
    Concat(<<Alt(<<Lit("current"), Lit("highest"), Lit("latest")>>), S1, Lit("bid")>>),
    \* what\s+(?:is\s+)?(?:the\s+)?(?:current|highest)\s+bid
    Concat(<<Lit("what"), S1, Opt(Concat(<<Lit("is"), S1>>)), Opt(Concat(<<Lit("the"), S1>>)),
             Alt(<<Lit("current"), Lit("highest")>>), S1, Lit("bid")>>),
    \* bid\s+status
    Concat(<<Lit("bid"), S1, Lit("status")>>),
    \* how\s+much\s+(?:is\s+)?(?:the\s+)?(?:current\s+)?bid
    Concat(<<Lit("how"), S1, Lit("much"), S1, Opt(Concat(<<Lit("is"), S1>>)),
             Opt(Concat(<<Lit("the"), S1>>)), Opt(Concat(<<Lit("current"), S1>>)), Lit("bid")>>),
    \* price\s+(?:now|current)
    Concat(<<Lit("price"), S1, Alt(<<Lit("now"), Lit("current")>>)>>),
    \* status
    Lit("status"),
    \* what\s+(?:is\s+)?(?:the\s+)?price
    Concat(<<Lit("what"), S1, Opt(Concat(<<Lit("is"), S1>>)), Opt(Concat(<<Lit("the"), S1>>)),
             Lit("price")>>),
    \* how\s+much\s+(?:does\s+it\s+cost|is\s+it)
    Concat(<<Lit("how"), S1, Lit("much"), S1,
             Alt(<<Concat(<<Lit("does"), S1, Lit("it"), S1, Lit("cost")>>),
                   Concat(<<Lit("is"), S1, Lit("it")>>)>>)>>) >>

help_patterns == <<
    Lit("help"),                                                   \* help
    \* what\s+can\s+(?:you\s+)?do
    Concat(<<Lit("what"), S1, Lit("can"), S1, Opt(Concat(<<Lit("you"), S1>>)), Lit("do")>>),
    Plural("command"),                                             \* commands?
    \* how\s+(?:do\s+i|to)
    Concat(<<Lit("how"), S1, Alt(<<Concat(<<Lit("do"), S1, Lit("i")>>), Lit("to")>>)>>),
    Plural("instruction"),                                         \* instructions?
    Lit("guide"),                                                  \* guide
    Lit("tutorial"),                                               \* tutorial
    Lit("explain") >>                                              \* explain

greeting_patterns == <<
    \* ^(?:hello|hi|hey|start)$
    Concat(<<BOL, Alt(<<Lit("hello"), Lit("hi"), Lit("hey"), Lit("start")>>), EOL>>),
    \* good\s+(?:morning|afternoon|evening)
    Concat(<<Lit("good"), S1, Alt(<<Lit("morning"), Lit("afternoon"), Lit("evening")>>)>>),
    Plural("greeting"),                                            \* greetings?
    Lit("howdy"),                                                  \* howdy
    Concat(<<Lit("what"), S1, Lit("up")>>) >>                      \* what\s+up

insights_patterns == <<
    \* (?:analyze|analysis)\s+(?:market\s+)?trends?
    Concat(<<Alt(<<Lit("analyze"), Lit("analysis")>>), S1, Opt(Concat(<<Lit("market"), S1>>)),
             Plural("trend")>>),
    \* market\s+insights?
    Concat(<<Lit("market"), S1, Plural("insight")>>),
    \* recommend(?:ations?)?
    Concat(<<Lit("recommend"), Opt(Plural("ation"))>>),
    \* suggest(?:ions?)?
    Concat(<<Lit("suggest"), Opt(Plural("ion"))>>),
    Plural("insight"),                                             \* insights?
    Plural("analytic"),                                            \* analytics?
    Plural("statistic"),                                           \* statistics?
    \* data\s+analysis
    Concat(<<Lit("data"), S1, Lit("analysis")>>) >>

\* the registry in its insertion order, which is the order dict iteration follows;
\* confidence_boost in hundredths
command_patterns == <<
    [intent |-> "bidding", patterns |-> bidding_patterns,
     keywords |-> <<"bid", "offer", "place", "put", "raise", "increase", "dollars", "bucks", "take">>,
     confidence_boost |-> 15, priority |-> 1],
    [intent |-> "listing", patterns |-> listing_patterns,
     keywords |-> <<"list", "show", "display", "auctions", "available", "current", "browse">>,
     confidence_boost |-> 10, priority |-> 2],
    [intent |-> "status", patterns |-> status_patterns,
     keywords |-> <<"current", "highest", "bid", "status", "price", "much", "cost">>,
     confidence_boost |-> 10, priority |-> 3],
    [intent |-> "help", patterns |-> help_patterns,
     keywords |-> <<"help", "commands", "instructions", "how", "guide", "explain">>,
     confidence_boost |-> 15, priority |-> 4],
    [intent |-> "greeting", patterns |-> greeting_patterns,
     keywords |-> <<"hello", "hi", "hey", "start", "good", "greetings">>,
     confidence_boost |-> 10, priority |-> 5],
    [intent |-> "insights", patterns |-> insights_patterns,
     keywords |-> <<"analyze", "market", "insights", "recommend", "suggest", "analytics", "data">>,
     confidence_boost |-> 10, priority |-> 6] >>

-----------------------------------------------------------------------------
(* _preprocess_text                                                        *)

corrections == <<
    <<"dollar", "dollars">>,
    <<"buck", "bucks">>,
    <<"place a bit", "place a bid">>,
    <<"bit", "bid">>,
    <<"show me options", "show me auctions">>,
    <<"current price", "current bid">>,
    <<"highest price", "highest bid">>,
    <<"what is the price", "what is the current bid">>,
    <<"how much does it cost", "what is the current bid">>,
    <<"i want to buy", "i want to bid">>,
    <<"purchase", "bid">>,
    <<"buy", "bid">>,
    <<"get", "bid">>,
    <<"take", "bid">> >>

filler_words == {"um", "uh", "like", "you know", "actually", "basically", "well", "so", "okay"}

\* for error, correction in corrections.items(): text = text.replace(error, correction)
RECURSIVE applyCorrections(_, _)
applyCorrections(text, k) ==
    IF k > Len(corrections) THEN text
    ELSE applyCorrections(replaceFrom(text, corrections[k][1], corrections[k][2], 1), k + 1)

\* re.sub(r'[^\w\s$.]', ' ', text)
subPunctuation(text) ==
    CatRange([i \in 1..Len(text) |->
                IF Char(text, i) \in WordChars \cup Whitespace \cup {"$", "."}
                THEN Char(text, i) ELSE " "], 1, Len(text))

\* re.sub(r'\s+', ' ', text)
subSpaces(text) ==
    CatRange([i \in 1..Len(text) |->
                IF Char(text, i) \notin Whitespace THEN Char(text, i)
                ELSE IF i > 1 /\ Char(text, i - 1) \in Whitespace THEN "" ELSE " "],
             1, Len(text))

\* the steps of _preprocess_text
preprocessSteps(text) ==
    LET corrected == applyCorrections(strip(lower(text)), 1)
        words     == SelectSeq(split(corrected), LAMBDA word : word \notin filler_words)
    IN  strip(subSpaces(subPunctuation(join(words))))

\* The utterances the model feeds to the processor.
Utterances == {
    "", "help", "HELP!", "help me", "hello", "hi", "hey", "hey there", "good morning", "um",
    "bid", "list", "status", "insights", "price", "auctions", "habit",
    "xyzabc123", "unclear mumbling", "no numbers here", "well so okay",
    "bid 100 dollars", "Bid 100 Dollars", "um, bid 100 dollars please", "bid fifty", "bid zero",
    "bid 0", "bid 5", "bid 10", "bid 10000", "bid 10001", "bid 20000000 dollars",
    "place a bid of 250.50", "place a bit of 200", "I want to bid $150", "go 300",
    "offer 75 bucks", "my bid is 500", "put in 200 dollars", "raise to 350",
    "increase to $400", "take it for 20", "1.5 dollars", "100 200 dollars",
    "list auctions", "list all active auctions", "what auctions are available",
    "show me auctions", "show me options", "current highest bid", "current status",
    "what's the status", "what's the current price", "i want to buy this",
    "market insights", "analyze trends",
    "auctions show display list current available browse",
    "highest much cost price current bid",
    "bid 9.99", "bid 11 dollars", "bid 10000 dollars", "bid 20000000 then 30",
    "bid 0 or bid 20", "bid 0 help", "help me bid 50",
    "help me list auctions", "market insights help",
    "help me bid 0 or bid 20", "pricelist" }

\* the texts _preprocess_text is applied to: the utterances and what it makes of them
Texts == Utterances \cup {preprocessSteps(text) : text \in Utterances}

\* _preprocess_text, computed once for each text of the model
preprocessed[text \in Texts] == preprocessSteps(text)

_preprocess_text(text) == preprocessed[text]

\* the normalized texts the stages of process_command see
NormalizedTexts == {preprocessed[text] : text \in Utterances}

-----------------------------------------------------------------------------
(* Exact arithmetic for the scores: a rational is <<numerator, denominator>>  *)
(* in lowest terms with a positive denominator.                            *)

RECURSIVE GCD(_, _)
GCD(a, b) == IF b = 0 THEN a ELSE GCD(b, a % b)

Q(n, d) == LET g == GCD(IF n < 0 THEN -n ELSE n, d) IN <<n \div g, d \div g>>

Hundredths(n) == Q(n, 100)

QAdd(a, b) == Q(a[1] * b[2] + b[1] * a[2], a[2] * b[2])

QMul(a, b) == Q(a[1] * b[1], a[2] * b[2])

QLess(a, b) == a[1] * b[2] < b[1] * a[2]

QLeq(a, b) == a[1] * b[2] <= b[1] * a[2]

QMin(a, b) == IF QLess(b, a) THEN b ELSE a

QMax(a, b) == IF QLess(a, b) THEN b ELSE a

-----------------------------------------------------------------------------
(* _calculate_confidence; the terms are in hundredths.                     *)

NoConfig == [intent |-> "", patterns |-> << >>, keywords |-> << >>,
             confidence_boost |-> 0, priority |-> 5]

\* registry.get(intent, {}), the missing keys of {} read with their defaults
registry_get(registry, intent) ==
    IF \E k \in 1..Len(registry) : registry[k].intent = intent
    THEN registry[CHOOSE k \in 1..Len(registry) : registry[k].intent = intent]
    ELSE NoConfig

Intents == {command_patterns[k].intent : k \in 1..Len(command_patterns)}

\* sum(1 for keyword in keywords if keyword in text.lower())
keyword_count(text, keywords) ==
    Cardinality({k \in 1..Len(keywords) : contains(lower(text), keywords[k])})

\* min(keyword_count * 0.08, 0.2)
keyword_bonus(count) == IF count * 8 < 20 THEN count * 8 ELSE 20

\* clarity_bonus without the max(0, ...) of long texts
clarity_bonus_unfloored(word_count) ==
    IF 2 <= word_count /\ word_count <= 8 THEN 15
    ELSE IF 9 <= word_count /\ word_count <= 15 THEN 10
    ELSE IF word_count > 15 THEN 10 - (word_count - 15) * 2
    ELSE 5

clarity_bonus(word_count) ==
    IF 2 <= word_count /\ word_count <= 8 THEN 15
    ELSE IF 9 <= word_count /\ word_count <= 15 THEN 10
    ELSE IF word_count > 15
         THEN (IF 10 - (word_count - 15) * 2 > 0 THEN 10 - (word_count - 15) * 2 ELSE 0)
    ELSE 5

\* dict.get(key, default)
entry_get(entry, key, default) == IF key \in DOMAIN entry THEN entry[key] ELSE default

\* the context bonus reads the 'intent' key of the last history entry
context_bonus(self, intent) ==
    IF Len(self.conversation_history) > 0
    THEN IF intent = entry_get(self.conversation_history[Len(self.conversation_history)],
                               "intent", "")
         THEN 5 ELSE 0
    ELSE 0

priority_bonus(config) == (5 - config.priority) * 2

\* min(total, 0.99)
total_confidence(total) == IF total < 99 THEN total ELSE 99

\* the sum of the terms, for the registry entry of the intent
confidence_sum(self, text, intent, pattern_match, config) ==
    total_confidence((IF pattern_match THEN 75 + 20 ELSE 75)
                     + keyword_bonus(keyword_count(text, config.keywords))
                     + clarity_bonus(Len(split(text)))
                     + context_bonus(self, intent)
                     + priority_bonus(config)
                     + config.confidence_boost)

_calculate_confidence(self, text, intent, pattern_match) ==
    confidence_sum(self, text, intent, pattern_match, 
                   registry_get(command_patterns, intent))

-----------------------------------------------------------------------------
(* difflib.SequenceMatcher(None, a, b).ratio(): twice the number of        *)
(* characters in the matching blocks over the total length.  The longest   *)
(* block is taken first (the earliest in a, then the earliest in b, among  *)
(* the longest), then the text to its left and to its right is matched.    *)

\* length of the common run of a from i and b from j, inside [.., ahi] and [.., bhi]
commonRun(a, b, i, ahi, j, bhi) ==
    LET limit == IF ahi - i < bhi - j THEN ahi - i + 1 ELSE bhi - j + 1
    IN  Max({k \in 0..limit : SubSeq(a, i, i + k - 1) = SubSeq(b, j, j + k - 1)})

RECURSIVE matchingChars(_, _, _, _, _, _)
matchingChars(a, b, alo, ahi, blo, bhi) ==
    LET pairs == {p \in (alo..ahi) \X (blo..bhi) : Char(a, p[1]) = Char(b, p[2])}
    IN  IF pairs = {} THEN 0
        ELSE LET size == Max({commonRun(a, b, p[1], ahi, p[2], bhi) : p \in pairs})
                 longest == {p \in pairs : commonRun(a, b, p[1], ahi, p[2], bhi) = size}
                 i == Min({p[1] : p \in longest})
                 j == Min({p[2] : p \in {q \in longest : q[1] = i}})
             IN  size + matchingChars(a, b, alo, i - 1, blo, j - 1)
                      + matchingChars(a, b, i + size, ahi, j + size, bhi)

ratio(a, b) ==
    IF Len(a) + Len(b) = 0 THEN Q(1, 1)
    ELSE Q(2 * matchingChars(a, b, 1, Len(a), 1, Len(b)), Len(a) + Len(b))

-----------------------------------------------------------------------------
(* _fuzzy_match_intent                                                     *)

\* if keyword in text: similarity = max(similarity, 0.8)
partial_match(text, keyword, sim) ==
    IF contains(text, keyword) THEN QMax(sim, Q(8, 10)) ELSE sim

\* if re.search(r'\b' + re.escape(keyword) + r'\b', text): similarity = max(similarity, 0.9)
word_match(text, keyword, sim) ==
    IF searchFrom(Concat(<<WB, Lit(keyword), WB>>), text, 1).found
    THEN QMax(sim, Q(9, 10)) ELSE sim

\* the similarity of the text to one keyword
similarity(text, keyword) ==
    word_match(text, keyword, partial_match(text, keyword, ratio(text, keyword)))

\* if similarity > 0.6: intent_score += similarity; keyword_matches += 1
add_similarity(scores, sim) ==
    IF QLess(Q(6, 10), sim)
    THEN [intent_score |-> QAdd(scores.intent_score, sim),
          keyword_matches |-> scores.keyword_matches + 1]
    ELSE scores

\* intent_score and keyword_matches after the first k keywords
RECURSIVE keywordScores(_, _, _)
keywordScores(text, keywords, k) ==
    IF k = 0 THEN [intent_score |-> Q(0, 1), keyword_matches |-> 0]
    ELSE add_similarity(keywordScores(text, keywords, k - 1), similarity(text, keywords[k]))

\* (intent_score / len(keywords)) * (keyword_matches / len(keywords))
weighted_score(scores, n) ==
    QMul(QMul(scores.intent_score, Q(1, n)), Q(scores.keyword_matches, n))

\* if weighted_score > best_score: best_score = weighted_score; best_match = intent
keep_best(best, intent, score) ==
    IF QLess(best.best_score, score)
    THEN [best_match |-> intent, best_score |-> score] ELSE best

\* if keyword_matches > 0: ...
rate_intent(best, intent, scores, n) ==
    IF scores.keyword_matches > 0
    THEN keep_best(best, intent, weighted_score(scores, n)) ELSE best

\* one round of the loop over the registry
score_intent(best, text, config) ==
    rate_intent(best, config.intent,
                keywordScores(text, config.keywords, Len(config.keywords)),
                Len(config.keywords))

\* best_match and best_score after the first k intents of the registry
RECURSIVE bestFuzzy(_, _, _)
bestFuzzy(text, registry, k) ==
    IF k = 0 THEN [best_match |-> "None", best_score |-> Q(0, 1)]
    ELSE score_intent(bestFuzzy(text, registry, k - 1), text, registry[k])

fuzzy_scan(text, registry) == bestFuzzy(text, registry, Len(registry))

\* the loop of _fuzzy_match_intent, computed once for each normalized text
fuzzyScan[text \in NormalizedTexts] == fuzzy_scan(text, command_patterns)

\* fuzzy_result answering 'unknown' with a confidence above the threshold
fuzzy_result_unknown_high(self, text, best) ==
    IF best.best_match # "None" /\ QLess(Q(6, 10), best.best_score)
    THEN <<best.best_match,
           QMul(Hundredths(_calculate_confidence(self, text, best.best_match, FALSE)),
                best.best_score)>>
    ELSE <<"unknown", Q(71, 100)>>

\* if best_match and best_score > 0.6: ...
fuzzy_result(self, text, best) ==
    IF best.best_match # "None" /\ QLess(Q(6, 10), best.best_score)
    THEN <<best.best_match,
           QMul(Hundredths(_calculate_confidence(self, text, best.best_match, FALSE)),
                best.best_score)>>
    ELSE <<"unknown", Q(1, 10)>>

_fuzzy_match_intent(self, text) == fuzzy_result(self, text, fuzzyScan[text])

-----------------------------------------------------------------------------
(* Amounts: float(match.group(1)) of a text matched by \d+(?:\.\d{2})?,    *)
(* counted in cents.  An Optional[float] is << >> (None) or <<cents>>.     *)

digitValue(c) == (CHOOSE i \in 1..10 : Char("0123456789", i) = c) - 1

RECURSIVE parseDigits(_, _)
parseDigits(str, k) ==
    IF k = 0 THEN 0 ELSE 10 * parseDigits(str, k - 1) + digitValue(Char(str, k))

\* the cents of a digit string with its decimal point at position dot (0: none)
cents(str, dot) ==
    IF dot = 0 THEN 100 * parseDigits(str, Len(str))
    ELSE 100 * parseDigits(str, dot - 1)
         + parseDigits(SubSeq(str, dot + 1, Len(str)), Len(str) - dot)

float(str) == cents(str, find(str, ".", 1))

Dollars(n) == 100 * n

\* the first of two optional values that is there: a loop returning at its first hit
first_of(a, b) == IF a # << >> THEN a ELSE b

-----------------------------------------------------------------------------
(* _extract_bid_amount                                                     *)

currency_patterns == <<
    \* (\d+(?:\.\d{2})?)\s*(?:dollars?|bucks?|usd|\$)
    Concat(<<NUM, S0, Alt(<<Plural("dollar"), Plural("buck"), Lit("usd"), Lit("$")>>)>>),
    \* \$\s*(\d+(?:\.\d{2})?)
    Concat(<<Lit("$"), S0, NUM>>),
    \* (\d+(?:\.\d{2})?)\s*(?:dollar|buck)
    Concat(<<NUM, S0, Alt(<<Lit("dollar"), Lit("buck")>>)>>) >>

bidding_keywords == <<"bid", "offer", "dollars", "bucks", "place", "put">>

\* amount_in_range without the test of the range
amount_unchecked(amount) == << amount >>

\* amount = float(...); if 0.01 <= amount <= 10000000: return amount
amount_in_range(amount) ==
    IF 1 <= amount /\ amount <= Dollars(10000000) THEN << amount >> ELSE << >>

\* the amount of a match of a bidding pattern, when it is in range
match_in_range(match) ==
    IF match.found THEN amount_in_range(float(match.group)) ELSE << >>

\* Method 1: the first pattern, from the k-th on, whose match is in range
RECURSIVE extractByPattern(_, _, _)
extractByPattern(text, patterns, k) ==
    IF k > Len(patterns) THEN << >>
    ELSE first_of(match_in_range(re_search(patterns[k], text)),
                  extractByPattern(text, patterns, k + 1))

\* the first number of a findall result, from the j-th on, that is in range
RECURSIVE firstInRange(_, _)
firstInRange(matches, j) ==
    IF j > Len(matches) THEN << >>
    ELSE first_of(amount_in_range(float(matches[j])), firstInRange(matches, j + 1))

\* Method 2: the currency patterns, from the k-th on
RECURSIVE extractByCurrency(_, _, _)
extractByCurrency(text, patterns, k) ==
    IF k > Len(patterns) THEN << >>
    ELSE first_of(firstInRange(re_findall(patterns[k], text), 1),
                  extractByCurrency(text, patterns, k + 1))

\* Method 3: a bare number, when the text holds a bidding keyword
extractByNumber(text) ==
    IF \E k \in 1..Len(bidding_keywords) : contains(lower(text), bidding_keywords[k])
    THEN firstInRange(re_findall(NUM, text), 1) ELSE << >>

extractSteps(text) ==
    first_of(extractByPattern(text, bidding_patterns, 1),
             first_of(extractByCurrency(text, currency_patterns, 1),
                      extractByNumber(text)))

\* _extract_bid_amount, computed once for each utterance of the model
extracted[text \in Utterances] == extractSteps(text)

_extract_bid_amount(text) == extracted[text]

-----------------------------------------------------------------------------
(* process_command                                                         *)

\* history[-n:]
last_entries(history, n) ==
    IF Len(history) > n THEN SubSeq(history, Len(history) - n + 1, Len(history))
    ELSE history

\* [h.get('intent', 'unknown') for h in history]
recent_intents(history) ==
    [k \in 1..Len(history) |-> entry_get(history[k], "intent", "unknown")]

\* the context dictionary built from the conversation history
command_context(self) ==
    [hasActiveAuctions |-> TRUE,
     userHasBids |-> Len(self.conversation_history) > 0,
     recentCommands |-> recent_intents(last_entries(self.conversation_history, 3)),
     session_length |-> Len(self.conversation_history),
     user_expertise |-> IF Len(self.conversation_history) < 5
                        THEN "beginner" ELSE "experienced"]

\* positive_amount letting an amount of 0 through
any_amount(bid_amount) == << bid_amount >>

\* bid_amount = float(match.group(1)); if bid_amount and bid_amount > 0: ...
positive_amount(bid_amount) == IF bid_amount > 0 THEN << bid_amount >> ELSE << >>

match_amount(match) ==
    IF match.found THEN positive_amount(float(match.group)) ELSE << >>

\* the bidding loop: the amount of the first pattern, from the k-th on, that
\* matches with an amount above 0; << >> when there is none
RECURSIVE biddingMatch(_, _, _)
biddingMatch(preprocessed_text, patterns, k) ==
    IF k > Len(patterns) THEN << >>
    ELSE first_of(match_amount(re_search(patterns[k], preprocessed_text)),
                  biddingMatch(preprocessed_text, patterns, k + 1))

\* reasonable_boost with the lower limit of 10 left out of the range
reasonable_boost_above(bid_amount, confidence) ==
    IF Dollars(10) < bid_amount /\ bid_amount <= Dollars(10000)
    THEN (IF confidence + 5 < 99 THEN confidence + 5 ELSE 99)
    ELSE confidence

\* min(confidence + 0.05, 0.99) when 10 <= bid_amount <= 10000
reasonable_boost(bid_amount, confidence) ==
    IF Dollars(10) <= bid_amount /\ bid_amount <= Dollars(10000)
    THEN (IF confidence + 5 < 99 THEN confidence + 5 ELSE 99)
    ELSE confidence

\* confidence of a bidding match, in hundredths
bidding_confidence(bid_amount) ==
    reasonable_boost(bid_amount, IF bid_amount > Dollars(10) THEN 95 ELSE 90)

\* the confidence for specific patterns, in hundredths
specific_confidence(intent, preprocessed_text) ==
    IF intent = "listing" /\ contains(preprocessed_text, "active") THEN 96
    ELSE IF intent = "status" /\ contains(preprocessed_text, "current") THEN 96
    ELSE IF intent = "help" /\ strip(preprocessed_text) = "help" THEN 98
    ELSE IF intent = "greeting" /\ preprocessed_text \in {"hello", "hi", "hey"} THEN 97
    ELSE 90

\* boosted_confidence without the cap of 0.99
boosted_confidence_uncapped(confidence, confidence_boost) == confidence + confidence_boost

\* boosted_confidence with the confidence_boost of the intent left out
unboosted_confidence(confidence, confidence_boost) == confidence

\* confidence += config.get('confidence_boost', 0); confidence = min(confidence, 0.99)
boosted_confidence(confidence, confidence_boost) ==
    IF confidence + confidence_boost < 99 THEN confidence + confidence_boost ELSE 99

\* confidence of a pattern match of another intent, in hundredths; it is the
\* same for every matching pattern of the intent
pattern_confidence(config, preprocessed_text) ==
    boosted_confidence(specific_confidence(config.intent, preprocessed_text),
                       config.confidence_boost)

matches_any(patterns, preprocessed_text) ==
    \E j \in 1..Len(patterns) : re_search(patterns[j], preprocessed_text).found

\* keep_higher replacing the best intent on equal confidence too
keep_not_lower(best, intent, confidence) ==
    IF confidence >= best.best_confidence
    THEN [best_intent |-> intent, best_confidence |-> confidence] ELSE best

\* if confidence > best_confidence: best_confidence = confidence; best_intent = intent
keep_higher(best, intent, confidence) ==
    IF confidence > best.best_confidence
    THEN [best_intent |-> intent, best_confidence |-> confidence] ELSE best

\* one round of the loop over the other intents
try_intent(best, config, preprocessed_text) ==
    IF config.intent # "bidding" /\ matches_any(config.patterns, preprocessed_text)
    THEN keep_higher(best, config.intent, pattern_confidence(config, preprocessed_text))
    ELSE best

\* best_intent and best_confidence after the first k entries of the registry
RECURSIVE bestPattern(_, _, _)
bestPattern(preprocessed_text, registry, k) ==
    IF k = 0 THEN [best_intent |-> "None", best_confidence |-> 0]
    ELSE try_intent(bestPattern(preprocessed_text, registry, k - 1), registry[k],
                    preprocessed_text)

pattern_scan(preprocessed_text, registry) ==
    [bid  |-> biddingMatch(preprocessed_text, registry_get(registry, "bidding").patterns, 1),
     best |-> bestPattern(preprocessed_text, registry, Len(registry))]

\* both pattern loops, computed once for each normalized text
patternScan[text \in NormalizedTexts] == pattern_scan(text, command_patterns)

\* keyword_matches with an intent name that is not in the registry
keyword_matches_unregistered == <<
    <<"bid", "bid">>, <<"list", "listing">>, <<"show", "listing">>,
    <<"status", "status">>, <<"help", "help">>, <<"price", "status">>,
    <<"current", "status">>, <<"available", "listing">>, <<"auctions", "listing">> >>

keyword_matches == <<
    <<"bid", "bidding">>, <<"list", "listing">>, <<"show", "listing">>,
    <<"status", "status">>, <<"help", "help">>, <<"price", "status">>,
    <<"current", "status">>, <<"available", "listing">>, <<"auctions", "listing">> >>

\* the entries of the keyword table whose keyword the text holds
keyword_hits(table, preprocessed_text) ==
    {k \in 1..Len(table) : contains(preprocessed_text, table[k][1])}

\* keyword_stage taking the last keyword of the table that the text holds
keyword_stage_last(context, table, hits) ==
    IF hits # {}
    THEN [intent |-> table[Max(hits)][2], confidence |-> Q(75, 100),
          data |-> << >>, context |-> context, method |-> "keyword_match", fuzzy |-> TRUE]
    ELSE [intent |-> "unknown", confidence |-> Q(1, 10),
          data |-> << >>, context |-> context, method |-> "no_match"]

\* the last two stages: the first keyword of the table in the text, or no match
keyword_stage(context, table, hits) ==
    IF hits # {}
    THEN [intent |-> table[Min(hits)][2], confidence |-> Q(75, 100),
          data |-> << >>, context |-> context, method |-> "keyword_match", fuzzy |-> TRUE]
    ELSE [intent |-> "unknown", confidence |-> Q(1, 10),
          data |-> << >>, context |-> context, method |-> "no_match"]

\* the stages in their order: found holds the outcome of the two pattern
\* loops and fuzzy the result of _fuzzy_match_intent
stages(context, preprocessed_text, found, fuzzy) ==
    IF found.bid # << >>
    THEN [intent |-> "bidding",
          confidence |-> Hundredths(bidding_confidence(found.bid[1])),
          data |-> [bid_amount |-> found.bid[1]],
          context |-> context, method |-> "pattern_match"]
    ELSE IF found.best.best_intent # "None"
    THEN [intent |-> found.best.best_intent,
          confidence |-> Hundredths(found.best.best_confidence),
          data |-> << >>, context |-> context, method |-> "pattern_match"]
    ELSE IF QLess(Q(7, 10), fuzzy[2])
    THEN [intent |-> fuzzy[1], confidence |-> fuzzy[2],
          data |-> << >>, context |-> context, method |-> "fuzzy_match", fuzzy |-> TRUE]
    ELSE keyword_stage(context, keyword_matches,
                       keyword_hits(keyword_matches, preprocessed_text))

classify(self, context, preprocessed_text) ==
    stages(context, preprocessed_text, patternScan[preprocessed_text],
           _fuzzy_match_intent(self, preprocessed_text))

process_command(self, input_text) ==
    classify(self, command_context(self), _preprocess_text(input_text))

-----------------------------------------------------------------------------
(* The inventory service, as requests.get(api_url + "/products") answers.  *)
(* raises: the request or response.json() raised.  format: the JSON is a   *)
(* list of auctions ("list"), a dict with a 'products' list ("dict") or    *)
(* anything else ("other").                                                *)

Auction(status, currentBid) == [status |-> status, currentBid |-> currentBid]

Inventories == {
    << >>,
    << Auction("ended", Dollars(500)) >>,
    << Auction("active", Dollars(50)) >>,
    << Auction("active", Dollars(50)), Auction("ended", Dollars(500)),
       Auction("active", Dollars(150)), [status |-> "active"] >>,
    << [status |-> "active"] >>,
    << Auction("active", Dollars(20000000)) >> }

NoAnswer == [raises |-> TRUE, status_code |-> 0, format |-> "other", auctions |-> << >>]

Responses ==
    {NoAnswer}
    \cup {[raises |-> FALSE, status_code |-> 500, format |-> "other", auctions |-> << >>]}
    \cup {[raises |-> FALSE, status_code |-> 200, format |-> "other", auctions |-> << >>]}
    \cup {[raises |-> FALSE, status_code |-> 200, format |-> f, auctions |-> a] :
             f \in {"list", "dict"}, a \in Inventories}

-----------------------------------------------------------------------------
(* _validate_bid_amount; response is the answer to its inventory request.  *)

\* _validate_bid_amount testing the limits of a bid before the highest current bid
validate_limits_first(response, bid_amount) ==
    IF response.raises
    THEN [is_valid |-> TRUE, reason |-> "Validation error - assuming valid"]
    ELSE IF response.status_code # 200
    THEN [is_valid |-> TRUE, reason |-> "Cannot validate - assuming valid"]
    ELSE LET auctions == IF response.format \in {"dict", "list"}
                         THEN response.auctions ELSE << >>
             active_auctions ==
                 SelectSeq(auctions, LAMBDA a : entry_get(a, "status", "None") = "active")
             highest_current_bid ==
                 Max({entry_get(active_auctions[k], "currentBid", 0) :
                         k \in 1..Len(active_auctions)})
         IN  IF active_auctions = << >>
             THEN [is_valid |-> FALSE, reason |-> "No active auctions available"]
             ELSE IF bid_amount > Dollars(10000000)
             THEN [is_valid |-> FALSE, reason |-> "Bid amount too high (maximum $10,000,000)"]
             ELSE IF bid_amount < Dollars(1)
             THEN [is_valid |-> FALSE, reason |-> "Bid amount too low (minimum $1)"]
             ELSE IF bid_amount <= highest_current_bid
             THEN [is_valid |-> FALSE,
                   reason |-> "Bid must be higher than current highest bid",
                   current_bid |-> highest_current_bid,
                   minimum_bid |-> highest_current_bid + Dollars(1)]
             ELSE [is_valid |-> TRUE, reason |-> "Valid bid amount",
                   current_bid |-> highest_current_bid]

\* _validate_bid_amount refusing a bid it could not check
validate_fail_closed(response, bid_amount) ==
    IF response.raises
    THEN [is_valid |-> FALSE, reason |-> "Validation error"]
    ELSE IF response.status_code # 200
    THEN [is_valid |-> FALSE, reason |-> "Cannot validate"]
    ELSE validate_limits_first(response, bid_amount)

_validate_bid_amount(response, bid_amount) ==
    IF response.raises
    THEN [is_valid |-> TRUE, reason |-> "Validation error - assuming valid"]
    ELSE IF response.status_code # 200
    THEN [is_valid |-> TRUE, reason |-> "Cannot validate - assuming valid"]
    ELSE LET auctions == IF response.format \in {"dict", "list"}
                         THEN response.auctions ELSE << >>
             active_auctions ==
                 SelectSeq(auctions, LAMBDA a : entry_get(a, "status", "None") = "active")
             highest_current_bid ==
                 Max({entry_get(active_auctions[k], "currentBid", 0) :
                         k \in 1..Len(active_auctions)})
         IN  IF active_auctions = << >>
             THEN [is_valid |-> FALSE, reason |-> "No active auctions available"]
             ELSE IF bid_amount <= highest_current_bid
             THEN [is_valid |-> FALSE,
                   reason |-> "Bid must be higher than current highest bid",
                   current_bid |-> highest_current_bid,
                   minimum_bid |-> highest_current_bid + Dollars(1)]
             ELSE IF bid_amount > Dollars(10000000)
             THEN [is_valid |-> FALSE, reason |-> "Bid amount too high (maximum $10,000,000)"]
             ELSE IF bid_amount < Dollars(1)
             THEN [is_valid |-> FALSE, reason |-> "Bid amount too low (minimum $1)"]
             ELSE [is_valid |-> TRUE, reason |-> "Valid bid amount",
                   current_bid |-> highest_current_bid]

-----------------------------------------------------------------------------
(* process_with_advanced_nlp.  The 'response' and 'suggestions' texts of   *)
(* the result are fixed sentences chosen by the same branches; they are    *)
(* left out of the result record.                                          *)

\* the result as built from the analysis of process_command
analysis_result(analysis) ==
    [intent |-> analysis.intent,
     confidence |-> analysis.confidence,
     bid_amount |-> << >>,
     auction_item |-> "None",
     validation |-> [is_valid |-> TRUE, reason |-> ""],
     context_used |-> TRUE,
     method |-> entry_get(analysis, "method", "unknown")]

\* validated_bid with the +0.1 of a valid bid left uncapped
validated_bid_uncapped(result, bid_amount, validation) ==
    IF validation.is_valid
    THEN [result EXCEPT !.bid_amount = bid_amount,
                        !.validation = validation,
                        !.confidence = QAdd(@, Q(1, 10))]
    ELSE [result EXCEPT !.bid_amount = bid_amount,
                        !.validation = validation,
                        !.confidence = QMul(@, Q(7, 10))]

\* the bidding branch once the amount was validated
validated_bid(result, bid_amount, validation) ==
    IF validation.is_valid
    THEN [result EXCEPT !.bid_amount = bid_amount,
                        !.validation = validation,
                        !.confidence = QMin(QAdd(@, Q(1, 10)), Q(99, 100))]
    ELSE [result EXCEPT !.bid_amount = bid_amount,
                        !.validation = validation,
                        !.confidence = QMul(@, Q(7, 10))]

\* the bidding branch: bid_amount is what _extract_bid_amount returned
bidding_result(result, bid_amount, response) ==
    IF bid_amount # << >>
    THEN validated_bid(result, bid_amount, _validate_bid_amount(response, bid_amount[1]))
    ELSE [result EXCEPT !.confidence = QMul(@, Q(6, 10))]

\* the branches on the intent
intent_result(result, response, user_input) ==
    IF result.intent = "bidding"
    THEN bidding_result(result, _extract_bid_amount(user_input), response)
    ELSE IF result.intent \in {"listing", "status", "help", "greeting", "insights"}
    THEN result
    ELSE [result EXCEPT !.confidence = Q(2, 10)]

process_with_advanced_nlp(self, response, user_input) ==
    intent_result(analysis_result(process_command(self, user_input)), response, user_input)

-----------------------------------------------------------------------------
(* The language model, as process_with_openai sees it.  failed: importing  *)
(* the client or the request raised, or the reply is not JSON.  parsed:    *)
(* the JSON object of the reply; its keys are whatever the model sent.     *)

LLMFailure == [failed |-> TRUE, parsed |-> << >>]

\* d[key] = value on a dictionary
dict_set(d, key, value) ==
    [k \in DOMAIN d \cup {key} |-> IF k = key THEN value ELSE d[k]]

\* parsed_response.get('intent') == 'bidding' and parsed_response.get('bid_amount')
is_bid(parsed_response) ==
    /\ entry_get(parsed_response, "intent", "None") = "bidding"
    /\ entry_get(parsed_response, "bid_amount", 0) # 0

\* parsed_response['validation'] = validation_result, and the confidence of
\* an invalid bid is multiplied by 0.8
validated_reply(parsed_response, validation_result) ==
    IF validation_result.is_valid
    THEN dict_set(parsed_response, "validation", validation_result)
    ELSE [dict_set(parsed_response, "validation", validation_result)
             EXCEPT !.confidence = QMul(@, Q(8, 10))]

checked_reply(parsed_response, response) ==
    IF is_bid(parsed_response)
    THEN validated_reply(parsed_response,
                         _validate_bid_amount(response, parsed_response.bid_amount))
    ELSE parsed_response

\* parsed_response['confidence'] *= 0.8 raises KeyError on a reply without confidence
reply_raises(parsed_response, response) ==
    /\ is_bid(parsed_response)
    /\ "confidence" \notin DOMAIN parsed_response
    /\ ~_validate_bid_amount(response, parsed_response.bid_amount).is_valid

\* accuracy_score = successful_commands / max(total_commands, 1)
stats_record(total_commands, successful_commands) ==
    [total_commands |-> total_commands,
     successful_commands |-> successful_commands,
     accuracy_score |-> Q(successful_commands, Max({total_commands, 1}))]

\* total_commands += 1; successful_commands += 1 if the confidence is above 0.8
updated_stats(stats, parsed_response) ==
    stats_record(stats.total_commands + 1,
                 IF QLess(Q(8, 10), entry_get(parsed_response, "confidence", Q(0, 1)))
                 THEN stats.successful_commands + 1 ELSE stats.successful_commands)

\* the reply as returned, with the session statistics it leaves
counted_reply(stats, parsed_response) ==
    [result |-> parsed_response, session_stats |-> updated_stats(stats, parsed_response)]

\* process_with_openai: the result it returns and the session statistics it
\* leaves.  Every exception falls back to process_with_advanced_nlp.  The
\* request of get_auction_context only feeds the prompt and is left out.
process_with_openai(self, llm, response, user_input) ==
    IF \/ ~self.openai_api_key
       \/ llm.failed
       \/ reply_raises(llm.parsed, response)
    THEN [result |-> process_with_advanced_nlp(self, response, user_input),
          session_stats |-> self.session_stats]
    ELSE counted_reply(self.session_stats, checked_reply(llm.parsed, response))

-----------------------------------------------------------------------------
(* process_voice_command                                                   *)

HistoryLimit == 50

\* trim_history keeping the oldest entries instead of the most recent
trim_history_oldest(history) ==
    IF Len(history) > HistoryLimit THEN SubSeq(history, 1, HistoryLimit) ELSE history

\* if len(history) > 50: history = history[-50:]
trim_history(history) ==
    IF Len(history) > HistoryLimit THEN last_entries(history, HistoryLimit) ELSE history

\* the processor, as the methods read it
Self == [openai_api_key |-> openai_api_key,
         conversation_history |-> conversation_history,
         user_context |-> user_context,
         session_stats |-> session_stats]

\* the context record of a user id seen for the first time.  success_rate
\* starts at 0.0 and only ever becomes success_rate * 0.9 + 0.1: the field
\* counts these updates, k standing for the rate 1 - 0.9^k.
new_user_context ==
    [command_count |-> 0, last_intent |-> "None", preferred_language |-> "en",
     success_rate |-> 0, session_start |-> clock]

\* if user_id not in self.user_context: self.user_context[user_id] = {...}
known_user(context, user_id) ==
    IF user_id \in DOMAIN context THEN context
    ELSE dict_set(context, user_id, new_user_context)

\* counted_user leaving the counter of a user already known as it is
counted_user_once(context, user_id) ==
    [context EXCEPT ![user_id].command_count = IF @ = 0 THEN 1 ELSE @]

\* self.user_context[user_id]['command_count'] += 1
counted_user(context, user_id) == [context EXCEPT ![user_id].command_count = @ + 1]

conversation_entry(user_input, user_id, outcome) ==
    [user_id |-> user_id,
     input |-> user_input,
     result |-> outcome.result,
     timestamp |-> clock,
     session_stats |-> outcome.session_stats,
     processing_time |-> 0]

\* the updates of the user context after the entry was recorded;
\* result['intent'] raises KeyError when the result has no intent
context_update(context, user_id, result) ==
    IF "intent" \in DOMAIN result
    THEN /\ user_context' =
               [context EXCEPT
                   ![user_id].last_intent = result.intent,
                   ![user_id].success_rate =
                       IF QLess(Q(8, 10), entry_get(result, "confidence", Q(0, 1)))
                       THEN @ + 1 ELSE @]
         /\ returned' = << result >>
    ELSE /\ user_context' = context
         /\ returned' = << [raised |-> "KeyError"] >>

\* the entry is appended, the history trimmed, the user context updated
record_turn(entry, user_id) ==
    /\ conversation_history' = trim_history(Append(conversation_history, entry))
    /\ log' = Append(log, entry)
    /\ session_stats' = entry.session_stats
    /\ context_update(counted_user(known_user(user_context, user_id), user_id),
                      user_id, entry.result)

process_voice_command(user_input, user_id, llm, response) ==
    /\ record_turn(
          conversation_entry(
             user_input, user_id,
             IF openai_api_key
             THEN process_with_openai(Self, llm, response, user_input)
             ELSE [result |-> process_with_advanced_nlp(Self, response, user_input),
                   session_stats |-> session_stats]),
          user_id)
    /\ clock' = clock + 1
    /\ UNCHANGED <<openai_api_key, calls>>

-----------------------------------------------------------------------------
(* voice_agent.py: EnhancedVoxtaVoiceAgent.place_bid_enhanced.  The agent  *)
(* asks the service for its auctions, checks the bid against the auction   *)
(* and posts the bid.  Instants are in milliseconds.  An endTime is        *)
(* [text, at]: text "" (absent or empty), "iso" (an ISO date, denoting the *)
(* instant at) or "soon" (a text fromisoformat rejects).  totalBids is the *)
(* text of the JSON value.  The answer to a posted bid is [raises,         *)
(* details, status_code, content, json]: raises names the exception that   *)
(* requests.post or response.json() raised, "" when neither raised.        *)

\* str(x) of a float amount, as an f-string prints it: 100.0, 150.5, 100.25
float_str(amount) ==
    ToString(amount \div 100) \o "." \o
    (IF amount % 10 = 0 THEN ToString((amount % 100) \div 10)
     ELSE IF amount % 100 < 10 THEN "0" \o ToString(amount % 100)
     ELSE ToString(amount % 100))

\* the text of a positive number of whole seconds
time_format(total_seconds) ==
    LET days == total_seconds \div 86400
        hours == (total_seconds % 86400) \div 3600
        minutes == (total_seconds % 3600) \div 60
        seconds == total_seconds % 60
    IN  IF days > 0
        THEN ToString(days) \o "d " \o ToString(hours) \o "h " \o ToString(minutes) \o "m"
        ELSE IF hours > 0
        THEN ToString(hours) \o "h " \o ToString(minutes) \o "m " \o ToString(seconds) \o "s"
        ELSE IF minutes > 0
        THEN ToString(minutes) \o "m " \o ToString(seconds) \o "s"
        ELSE ToString(seconds) \o "s"

\* now is datetime.now() at the call
_calculate_time_remaining(end_time, now) ==
    IF end_time.text = "" THEN "Unknown"
    ELSE IF end_time.text # "iso" THEN "Unknown"
    ELSE IF end_time.at - now <= 0 THEN "Ended"
    ELSE time_format((end_time.at - now) \div 1000)

\* AuctionItem(...) of an entry of the service; only the fields
\* place_bid_enhanced reads are kept
AuctionItem(auction, now) ==
    [id |-> entry_get(auction, "_id", ""),
     current_bid |-> entry_get(auction, "currentBid", 0),
     status |-> entry_get(auction, "status", "unknown"),
     time_remaining |->
         _calculate_time_remaining(entry_get(auction, "endTime", [text |-> "", at |-> 0]), now),
     category |-> entry_get(auction, "category", "General"),
     bid_increment |->
         entry_get(auction, "suggestedBid", entry_get(auction, "currentBid", 0) + Dollars(1))
         - entry_get(auction, "currentBid", 0)]

\* int(auction.get('totalBids', 0)) raises ValueError on a text that is no number
int_raises(auction) ==
    /\ "totalBids" \in DOMAIN auction
    /\ \/ auction.totalBids = ""
       \/ \E i \in 1..Len(auction.totalBids) : Char(auction.totalBids, i) \notin Digits

\* response is the answer to requests.get(api_base_url + "/products")
get_auctions_enhanced(response, now) ==
    IF response.raises \/ response.status_code # 200 THEN << >>
    ELSE LET auctions_data == IF response.format \in {"dict", "list"}
                              THEN response.auctions ELSE << >>
             kept == SelectSeq(auctions_data, LAMBDA auction : ~int_raises(auction))
         IN  [k \in 1..Len(kept) |-> AuctionItem(kept[k], now)]

\* next((a for a in auctions if a.id == auction_id), None)
target_of(auctions, auction_id) ==
    LET ks == {k \in 1..Len(auctions) : auctions[k].id = auction_id}
    IN  IF ks = {} THEN << >> ELSE << auctions[Min(ks)] >>

\* the request posted and what comes back, the checks having passed
post_bid(target_auction, answer, auction_id, bid_amount, bidder_name) ==
    [requests |-> << [productId |-> auction_id, bidAmount |-> bid_amount,
                      bidderName |-> bidder_name, bidType |-> "voice_enhanced_v2",
                      source |-> "enhanced_voice_agent",
                      bid_increment_used |-> bid_amount - target_auction.current_bid] >>,
     category |-> target_auction.category,
     success |-> answer.raises = "" /\ answer.status_code = 200,
     result |->
         IF answer.raises = "RequestException"
         THEN [message |-> "Network error occurred", error_code |-> "NETWORK_ERROR",
               details |-> answer.details]
         ELSE IF answer.raises # ""
         THEN [message |-> "An unexpected error occurred", error_code |-> "UNEXPECTED_ERROR",
               details |-> answer.details]
         ELSE IF answer.content THEN answer.json ELSE << >>]

\* what place_bid_enhanced returns without posting anything
refusal(result) == [requests |-> << >>, category |-> "", success |-> FALSE, result |-> result]

\* the outcome of place_bid_enhanced: the requests it posts, whether it
\* succeeded, the result it returns with that, the category it then records
place_bid_outcome(target, answer, auction_id, bid_amount, bidder_name) ==
    IF target = << >>
    THEN refusal([message |-> "Auction not found", error_code |-> "AUCTION_NOT_FOUND"])
    ELSE IF target[1].status # "active"
    THEN refusal([message |-> "Auction is " \o target[1].status \o ", not active",
                  error_code |-> "AUCTION_NOT_ACTIVE",
                  current_status |-> target[1].status])
    ELSE IF bid_amount <= target[1].current_bid
    THEN refusal([message |-> "Bid must be higher than current bid of $"
                                 \o float_str(target[1].current_bid),
                  error_code |-> "BID_TOO_LOW",
                  current_bid |-> target[1].current_bid,
                  minimum_bid |-> target[1].current_bid + target[1].bid_increment])
    ELSE IF target[1].time_remaining = "Ended"
    THEN refusal([message |-> "Auction has already ended", error_code |-> "AUCTION_ENDED"])
    ELSE post_bid(target[1], answer, auction_id, bid_amount, bidder_name)

\* the agent after a bid that succeeded or failed
bid_recorded(self, outcome) ==
    IF outcome.success
    THEN [self EXCEPT
             !.user_session.successful_commands = @ + 1,
             !.user_session.categories =
                 IF \E k \in 1..Len(@) : @[k] = outcome.category
                 THEN @ ELSE Append(@, outcome.category),
             !.performance_metrics.successful_commands = @ + 1]
    ELSE self

place_bid_enhanced(response, now, answer, auction_id, bid_amount, bidder_name) ==
    LET outcome == place_bid_outcome(
                      target_of(get_auctions_enhanced(response, now), auction_id),
                      answer, auction_id, bid_amount, bidder_name)
    IN  /\ posted' = posted \o outcome.requests
        /\ agent' = bid_recorded(agent, outcome)
        /\ ret' = << outcome.success, outcome.result >>

-----------------------------------------------------------------------------
(* The telephone flow (src/python/twilio_voice_integration.py).  A TwiML   *)
(* response is kept as the sentence it says first, the action URLs of the  *)
(* gathers it holds, in order, and the URL it redirects to ("None" when it *)
(* has no redirect).  None is << >> and a stored value v is << v >>.       *)

\* self.session_data[caller_phone][key] = value; 'pending_bid' is the only
\* key the routes store
store_session_data(data, caller_phone, value) ==
    IF caller_phone \in DOMAIN data
    THEN [data EXCEPT ![caller_phone].pending_bid = value]
    ELSE dict_set(data, caller_phone, [pending_bid |-> value])

\* self.session_data.get(caller_phone, {}).get('pending_bid', None)
get_session_data(data, caller_phone) ==
    IF caller_phone \in DOMAIN data THEN data[caller_phone].pending_bid ELSE << >>

\* get_auctions: [] on a RequestException or a status other than 200, the
\* list itself or the 'products' of a dict otherwise
get_auctions(answer) ==
    IF answer.raises \/ answer.status_code # 200 THEN << >>
    ELSE IF answer.format \in {"list", "dict"} THEN answer.auctions
    ELSE << >>

\* bidder_phone[-4:]
last_four(bidder_phone) ==
    SubSeq(bidder_phone, Max({1, Len(bidder_phone) - 3}), Len(bidder_phone))

\* the request place_bid posts
bid_request(auction_id, bid_amount, bidder_phone) ==
    [productId |-> auction_id, bidAmount |-> bid_amount,
     bidderName |-> "Phone User " \o last_four(bidder_phone),
     bidType |-> "voice_phone", source |-> "twilio_enhanced",
     session_id |-> "phone_" \o last_four(bidder_phone)]

\* place_bid once the request was posted.  raised: an exception that is
\* not a requests.RequestException leaves place_bid; message: the
\* 'message' of the JSON object returned with the flag, None when the
\* object has none or the JSON is not an object.
place_bid(answer) ==
    IF answer.raises = "RequestException"
    THEN [raised |-> FALSE, success |-> FALSE, object |-> TRUE,
          message |-> << "Network error" >>]
    ELSE [raised |-> answer.raises # "",
          success |-> answer.status_code = 200,
          object |-> answer.json = "object",
          message |-> answer.message]

positive_responses ==
    {"yes", "confirm", "proceed", "okay", "correct", "yep", "yeah", "sure", "go ahead", "do it"}

negative_responses == {"no", "cancel", "stop", "abort", "nope", "never mind"}

\* any(word in speech_result for word in responses)
any_word_in(speech_result, responses) == \E word \in responses : contains(speech_result, word)

\* request.form and the path of the route requested
Form(path, SpeechResult, From) == [path |-> path, SpeechResult |-> SpeechResult, From |-> From]

TwiML(say, gather, redirect) == [say |-> say, gather |-> gather, redirect |-> redirect]

\* response.say(...) of the bidding branch of process_speech, and the
\* pending bid it stores
bidding_branch(caller_phone, bid_amount, active_auctions) ==
    IF active_auctions = << >>
    THEN /\ twiml' = TwiML("no active auctions to bid on", << "/voice/process" >>,
                           "/voice/welcome")
         /\ UNCHANGED session_data
    ELSE LET most == Max({entry_get(active_auctions[k], "totalBids", 0) :
                             k \in 1..Len(active_auctions)})
             auction == active_auctions[
                 Min({k \in 1..Len(active_auctions) :
                         entry_get(active_auctions[k], "totalBids", 0) = most})]
         IN  IF bid_amount > entry_get(auction, "currentBid", 0)
             THEN /\ session_data' =
                        store_session_data(session_data, caller_phone,
                            << [amount |-> bid_amount,
                                auction_id |-> entry_get(auction, "_id", "None"),
                                auction_name |-> entry_get(auction, "name", "None")] >>)
                  /\ twiml' = TwiML("say 'yes' to confirm or 'no' to cancel",
                                    << "/voice/confirm_bid", "/voice/process" >>,
                                    "/voice/welcome")
             ELSE /\ twiml' = TwiML("your bid is too low", << "/voice/process" >>,
                                    "/voice/welcome")
                  /\ UNCHANGED session_data

\* the branches of process_speech on ai_result, a result of
\* process_with_advanced_nlp or the KeyError process_voice_command raised
speech_branches(ai_result, caller_phone, auctions) ==
    IF "raised" \in DOMAIN ai_result
    THEN /\ twiml' = TwiML("I encountered an error", << "/voice/process" >>, "/voice/welcome")
         /\ UNCHANGED session_data
    ELSE IF /\ ai_result.intent = "bidding"
            /\ ai_result.bid_amount # << >>
            /\ ai_result.bid_amount # << 0 >>
    THEN bidding_branch(caller_phone, ai_result.bid_amount[1],
             SelectSeq(auctions, LAMBDA a : entry_get(a, "status", "None") = "active"))
    ELSE /\ twiml' = TwiML(ai_result.intent, << "/voice/process" >>, "/voice/welcome")
         /\ UNCHANGED session_data

\* POST /voice/process.  SpeechResult and From are the form fields; llm and
\* response are what process_voice_command meets, inventory is the answer
\* to the request of agent.get_auctions()
process_speech(SpeechResult, From, llm, response, inventory) ==
    /\ form' = Form("/voice/process", SpeechResult, From)
    /\ IF strip(lower(SpeechResult)) = ""
       THEN /\ twiml' = TwiML("I didn't hear anything clearly", << >>, "/voice/welcome")
            /\ UNCHANGED <<sessionVars, unitVars, loopVars, session_data, bid_requests>>
       ELSE /\ process_voice_command(strip(lower(SpeechResult)), From, llm, response)
            /\ speech_branches(returned'[1], From, get_auctions(inventory))
            /\ UNCHANGED <<agent, posted, unitVars, loopVars, bid_requests>>

\* the positive branch of confirm_bid: the request is posted, and the
\* pending bid is cleared unless an exception leaves the route
placed(pending_bid, caller_phone, outcome) ==
    /\ bid_requests' = Append(bid_requests,
          bid_request(pending_bid.auction_id, pending_bid.amount, caller_phone))
    /\ IF outcome.raised \/ (~outcome.success /\ ~outcome.object)
       THEN /\ twiml' = TwiML("500 Internal Server Error", << >>, "None")
            /\ UNCHANGED session_data
       ELSE /\ twiml' = TwiML(IF outcome.success THEN "successfully placed"
                              ELSE "I couldn't place your bid",
                              << "/voice/process" >>, "/voice/welcome")
            /\ session_data' = store_session_data(session_data, caller_phone, << >>)

\* POST /voice/confirm_bid; answer is what the bid service answers to a
\* request, should one be posted
confirm_bid(SpeechResult, From, answer) ==
    /\ form' = Form("/voice/confirm_bid", SpeechResult, From)
    /\ IF get_session_data(session_data, From) = << >>
       THEN /\ twiml' = TwiML("I don't have a pending bid to confirm", << >>, "/voice/welcome")
            /\ UNCHANGED <<session_data, bid_requests>>
       ELSE IF any_word_in(strip(lower(SpeechResult)), positive_responses)
       THEN placed(get_session_data(session_data, From)[1], From, place_bid(answer))
       ELSE IF any_word_in(strip(lower(SpeechResult)), negative_responses)
       THEN /\ twiml' = TwiML("Bid cancelled as requested", << "/voice/process" >>,
                              "/voice/welcome")
            /\ session_data' = store_session_data(session_data, From, << >>)
            /\ UNCHANGED bid_requests
       ELSE /\ twiml' = TwiML("I didn't understand", << "/voice/confirm_bid" >>, "None")
            /\ UNCHANGED <<session_data, bid_requests>>
    /\ UNCHANGED <<sessionVars, unitVars, loopVars>>

\* POST /voice/hangup: del agent.session_data[caller_phone]
hangup(From) ==
    /\ form' = Form("/voice/hangup", "", From)
    /\ session_data' = [c \in DOMAIN session_data \ {From} |-> session_data[c]]
    /\ twiml' = TwiML("Goodbye and happy bidding!", << >>, "None")
    /\ UNCHANGED <<sessionVars, unitVars, loopVars, bid_requests>>

\* POST /voice/welcome
welcome ==
    /\ form' = Form("/voice/welcome", "", "")
    /\ twiml' = TwiML("Welcome to Voxta", << "/voice/process" >>, "/voice/welcome")
    /\ UNCHANGED <<sessionVars, unitVars, loopVars, session_data, bid_requests>>

-----------------------------------------------------------------------------
(* The voice agent's loop (src/python/voice_agent.py).  What the           *)
(* microphone or the keyboard delivers to one call of listen_enhanced is a *)
(* hearing [raises, text, confidence]: raises names an exception that      *)
(* leaves listen_enhanced ("" for none), text is the best transcript or    *)
(* the typed line, "" when the wait timed out, no engine recognized        *)
(* anything or the line was empty.  In a result None is << >> and a text   *)
(* t is << t >>.                                                           *)

\* listen_enhanced returns a pair on every path: (text, confidence), or
\* (None, 0.0) when there is no text
listen_enhanced(hearing) ==
    IF strip(hearing.text) = ""
    THEN << << >>, Q(0, 1) >>
    ELSE << << strip(lower(hearing.text)) >>, hearing.confidence >>

\* self.user_session['session_id']
session_id == "enhanced_voice_1"

\* positive_responses of handle_voice_command_enhanced
agent_positive_responses ==
    {"yes", "correct", "right", "okay", "confirm", "proceed", "go ahead", "do it",
     "place it", "submit", "continue", "yep", "yeah", "sure", "absolutely", "definitely"}

\* negative_responses of handle_voice_command_enhanced
agent_negative_responses ==
    {"no", "cancel", "stop", "abort", "wait", "hold on", "not now", "never mind",
     "forget it", "nope"}

\* command_count += 1 and commands_processed += 1
command_counted(self) ==
    [self EXCEPT !.user_session.command_count = @ + 1,
                 !.performance_metrics.commands_processed = @ + 1]

\* user_session['successful_commands'] += 1 after a bid that succeeded
success_counted(self, outcome) ==
    IF outcome.success
    THEN [self EXCEPT !.user_session.successful_commands = @ + 1]
    ELSE self

\* active_auctions[0], or the first active auction of a preferred category
\* (a result of process_with_advanced_nlp names no auction item)
target_auction(active_auctions, preferred_categories) ==
    LET ks == {k \in 1..Len(active_auctions) :
                  \E c \in 1..Len(preferred_categories) :
                      active_auctions[k].category = preferred_categories[c]}
    IN  IF ks = {} THEN active_auctions[1] ELSE active_auctions[Min(ks)]

\* what the agent says once place_bid_enhanced returned
bid_answer(outcome) ==
    IF outcome.success THEN << "Your enhanced bid has been successfully placed" >>
    ELSE IF contains(lower(entry_get(outcome.result, "message", "Please try again.")),
                     "too low")
    THEN << "I couldn't place your bid", "Try bidding at least" >>
    ELSE << "I couldn't place your bid" >>

\* the bid is placed: place_bid_enhanced counts its success, the handler
\* counts it again
bid_placed(self, outcome) ==
    /\ posted' = posted \o outcome.requests
    /\ agent' = success_counted(bid_recorded(self, outcome), outcome)
    /\ spoken' = << "Shall I proceed with this bid?" >> \o bid_answer(outcome)

\* the handler from the confirmation on.  confirmation_result is what
\* listen_enhanced(timeout=15) returned; target is the auction chosen,
\* relisted what place_bid_enhanced finds the service to list
confirmed_bid(self, confirmation_result, target, relisted, answer, bid_amount) ==
    /\ confirmation' = << confirmation_result >>
    /\ IF confirmation_result # << >>
       THEN IF confirmation_result[1] = << >>
            \* 'yes' in None raises TypeError, caught by the handler
            THEN /\ spoken' = << "Shall I proceed with this bid?",
                                 "I encountered an error processing your request" >>
                 /\ agent' = self
                 /\ UNCHANGED posted
            ELSE IF any_word_in(confirmation_result[1][1], agent_positive_responses)
            THEN bid_placed(self,
                            place_bid_outcome(target_of(relisted, target.id), answer,
                                              target.id, bid_amount, "Enhanced Voice User"))
            ELSE /\ spoken' = << "Shall I proceed with this bid?",
                                 IF any_word_in(confirmation_result[1][1],
                                                agent_negative_responses)
                                 THEN "Bid cancelled as requested"
                                 ELSE "I didn't understand your confirmation" >>
                 /\ agent' = self
                 /\ UNCHANGED posted
       ELSE /\ spoken' = << "Shall I proceed with this bid?",
                            "I didn't hear a confirmation. Bid cancelled for safety" >>
            /\ agent' = self
            /\ UNCHANGED posted

\* the bidding branch of the handler
bidding_command(self, ai_result, active_auctions, confirmation_result, relisted, answer) ==
    IF /\ ai_result.bid_amount # << >>
       /\ ai_result.bid_amount # << 0 >>
       /\ ai_result.validation.is_valid
    THEN IF active_auctions # << >>
         THEN confirmed_bid(self, confirmation_result,
                            target_auction(active_auctions, self.user_session.categories),
                            relisted, answer, ai_result.bid_amount[1])
         ELSE /\ spoken' = << "There are no active auctions available for bidding" >>
              /\ agent' = self
              /\ confirmation' = << >>
         /\ UNCHANGED posted
    ELSE /\ spoken' = << IF ai_result.bid_amount \in {<< >>, << 0 >>}
                         THEN "I didn't catch a valid bid amount"
                         ELSE "Your bid is invalid" >>
         /\ agent' = self
         /\ confirmation' = << >>
         /\ UNCHANGED posted

\* the branches of the handler on ai_result, a result of
\* process_with_advanced_nlp or the KeyError process_voice_command raised
command_branches(self, ai_result, listed, confirmation_result, relisted, answer) ==
    IF "raised" \in DOMAIN ai_result
    THEN /\ spoken' = << "I encountered an error processing your request" >>
         /\ agent' = self
         /\ confirmation' = << >>
         /\ UNCHANGED posted
    ELSE IF ai_result.intent = "bidding"
    THEN bidding_command(self, ai_result,
                         SelectSeq(listed, LAMBDA a : a.status = "active"),
                         confirmation_result, relisted, answer)
    ELSE /\ spoken' = << ai_result.intent >>
         /\ agent' = self
         /\ confirmation' = << >>
         /\ UNCHANGED posted

\* handle_voice_command_enhanced(command, confidence).  llm and response
\* are what process_voice_command meets; listing is the service's answer to
\* the handler's get_auctions_enhanced, relisting its answer to the one of
\* place_bid_enhanced, answer its answer to the bid; hearing is what the
\* handler's call of listen_enhanced gets
handle_voice_command_enhanced(command, llm, response, listing, hearing, relisting, answer, now) ==
    IF command \in {<< >>, << "" >>}
    THEN /\ spoken' = << >>
         /\ confirmation' = << >>
         /\ UNCHANGED <<openai_api_key, conversation_history, user_context, session_stats,
                        clock, returned, log, calls, agent, posted>>
    ELSE /\ process_voice_command(command[1], session_id, llm, response)
         /\ command_branches(command_counted(agent), returned'[1],
                             get_auctions_enhanced(listing, now), listen_enhanced(hearing),
                             get_auctions_enhanced(relisting, now), answer)

\* success_rate of the session summary, in percent
session_summary(self) ==
    Q(100 * self.user_session.successful_commands,
      Max({self.user_session.command_count, 1}))

max_consecutive_errors == 3

\* start_enhanced_listening up to its loop
start_enhanced_listening ==
    /\ loop = "off"
    /\ loop' = "on"
    /\ agent' = [agent EXCEPT !.is_listening = TRUE]
    /\ spoken' = << "Enhanced Voxta Voice Assistant is ready" >>
    /\ consecutive_errors' = 0
    /\ UNCHANGED <<openai_api_key, conversation_history, user_context, session_stats,
                   clock, returned, log, calls, posted, unitVars, phoneVars,
                   heard, silences, confirmation, success_rate>>

\* the loop is left: the session summary is computed
loop_left(self) ==
    /\ loop' = "over"
    /\ success_rate' = << session_summary(self) >>

\* an iteration in which listen_enhanced raised: KeyboardInterrupt ends the
\* loop, any other exception is counted
listen_raised(exception) ==
    /\ heard' = << >>
    /\ silences' = 0
    /\ confirmation' = << >>
    /\ UNCHANGED <<openai_api_key, conversation_history, user_context, session_stats,
                   clock, returned, log, calls, agent, posted>>
    /\ IF exception = "KeyboardInterrupt"
       THEN /\ spoken' = << "Enhanced voice assistant stopped" >>
            /\ UNCHANGED consecutive_errors
            /\ loop_left(agent)
       ELSE /\ consecutive_errors' = consecutive_errors + 1
            /\ IF consecutive_errors + 1 >= max_consecutive_errors
               THEN /\ spoken' = << "I'm experiencing technical difficulties" >>
                    /\ loop_left(agent)
               ELSE /\ spoken' = << >>
                    /\ UNCHANGED <<loop, success_rate>>

\* an iteration in which listen_enhanced returned result
listen_returned(result, llm, response, listing, hearing, relisting, answer, now) ==
    /\ heard' = << result >>
    /\ silences' = IF result[1] = << >> THEN (silences + 1) % max_consecutive_errors ELSE 0
    /\ UNCHANGED <<loop, success_rate>>
    /\ IF result # << >>
       THEN /\ consecutive_errors' = 0
            /\ handle_voice_command_enhanced(result[1], llm, response, listing, hearing,
                                             relisting, answer, now)
       ELSE /\ consecutive_errors' =
                  IF consecutive_errors + 1 >= max_consecutive_errors THEN 0
                  ELSE consecutive_errors + 1
            /\ spoken' =
                  IF consecutive_errors + 1 >= max_consecutive_errors
                  THEN << "I'm having trouble hearing you clearly" >>
                  ELSE << >>
            /\ confirmation' = << >>
            /\ UNCHANGED <<openai_api_key, conversation_history, user_context,
                           session_stats, clock, returned, log, calls, agent, posted>>

\* one iteration of the loop of start_enhanced_listening
iteration(said, llm, response, listing, hearing, relisting, answer, now) ==
    /\ loop = "on"
    /\ agent.is_listening
    /\ IF said.raises # ""
       THEN listen_raised(said.raises)
       ELSE listen_returned(listen_enhanced(said), llm, response, listing, hearing,
                            relisting, answer, now)
    /\ UNCHANGED <<unitVars, phoneVars>>

-----------------------------------------------------------------------------
(* The processor after __init__, with or without a language-model key.     *)

\* the threads serving requests, and a thread that is in no call
Workers == {1, 2}

Idle == [pc |-> "idle", user_id |-> "", entry |-> << >>, kept |-> << >>]

Init ==
    /\ openai_api_key \in BOOLEAN
    /\ conversation_history = << >>
    /\ user_context = [user_id \in {} |-> new_user_context]
    /\ session_stats = [total_commands |-> 0, successful_commands |-> 0,
                        accuracy_score |-> Q(0, 1)]
    /\ clock = 0
    /\ returned = << >>
    /\ log = << >>
    /\ calls = [w \in Workers |-> Idle]
    /\ agent = [is_listening |-> FALSE,
                user_session |-> [command_count |-> 0, successful_commands |-> 0,
                                  categories |-> << >>],
                performance_metrics |-> [commands_processed |-> 0,
                                         successful_commands |-> 0]]
    /\ posted = << >>
    /\ input = ""
    /\ fn = ""
    /\ arg = << >>
    /\ ret = << >>
    /\ session_data = [caller \in {} |-> [pending_bid |-> << >>]]
    /\ bid_requests = << >>
    /\ twiml = << >>
    /\ form = << >>
    /\ loop = "off"
    /\ consecutive_errors = 0
    /\ heard = << >>
    /\ silences = 0
    /\ confirmation = << >>
    /\ spoken = << >>
    /\ success_rate = << >>

-----------------------------------------------------------------------------
(* Spec: a session of process_voice_command calls by several users.        *)

MaxTurns == 3

Users == {"test_user", "anonymous"}

TurnTexts == {"help", "bid 100 dollars", "xyzabc123"}

TurnReplies == {LLMFailure,
                [failed |-> FALSE,
                 parsed |-> [intent |-> "bidding", confidence |-> Q(95, 100),
                             bid_amount |-> Dollars(100)]],
                [failed |-> FALSE, parsed |-> [confidence |-> Q(1, 2)]]}

TurnResponses == {NoAnswer,
                  [raises |-> FALSE, status_code |-> 200, format |-> "list",
                   auctions |-> << Auction("active", Dollars(50)) >>],
                  [raises |-> FALSE, status_code |-> 200, format |-> "dict",
                   auctions |-> << Auction("ended", Dollars(500)) >>]}

Turn ==
    /\ clock < MaxTurns
    /\ \E user_input \in TurnTexts, user_id \in Users,
          llm \in TurnReplies, response \in TurnResponses :
          process_voice_command(user_input, user_id, llm, response)
    /\ UNCHANGED <<agent, posted, unitVars, phoneVars, loopVars>>

Next == Turn

Spec == Init /\ [][Next]_vars

-----------------------------------------------------------------------------
(* SpecLong: a session long enough for the history to be trimmed.  After   *)
(* a first turn by anyone, one user repeats one utterance BurstTurns times *)
(* while the services give no answer; then anyone speaks again.            *)

BurstTurns == 49

MaxLongTurns == 51

InBurst == 1 <= clock /\ clock <= BurstTurns

LongTurn ==
    /\ clock < MaxLongTurns
    /\ \E user_input \in (IF InBurst THEN {"help"} ELSE TurnTexts),
          user_id \in (IF InBurst THEN {"test_user"} ELSE Users),
          llm \in (IF InBurst THEN {LLMFailure} ELSE TurnReplies),
          response \in (IF InBurst THEN {NoAnswer} ELSE TurnResponses) :
          process_voice_command(user_input, user_id, llm, response)
    /\ UNCHANGED <<agent, posted, unitVars, phoneVars, loopVars>>

NextLong == LongTurn

SpecLong == Init /\ [][NextLong]_vars

-----------------------------------------------------------------------------
(* SpecUnit: the methods of the processor called directly, as the unit     *)
(* tests call them, on a fresh processor or after a few recorded turns.    *)
(* fn names the method called, arg holds its arguments and ret its result. *)

UnitTurns == 1

UnitTurn ==
    /\ fn = ""
    /\ clock < UnitTurns
    /\ \E user_input \in {"help", "bid 100 dollars"} :
          process_voice_command(user_input, "test_user", LLMFailure, NoAnswer)
    /\ UNCHANGED <<agent, posted, unitVars, phoneVars, loopVars>>

call_preprocess_text ==
    /\ fn = ""
    /\ \E text \in Utterances :
          /\ input' = text
          /\ arg' = [text |-> text]
          /\ ret' = _preprocess_text(text)
    /\ fn' = "_preprocess_text"
    /\ UNCHANGED <<sessionVars, phoneVars, loopVars>>

\* _preprocess_text applied to its own result
call_preprocess_text_again ==
    /\ fn = "_preprocess_text"
    /\ arg' = [text |-> ret]
    /\ ret' = _preprocess_text(ret)
    /\ fn' = "_preprocess_text twice"
    /\ UNCHANGED <<sessionVars, phoneVars, loopVars, input>>

call_fuzzy_match_intent ==
    /\ fn = ""
    /\ \E text \in NormalizedTexts :
          /\ input' = text
          /\ arg' = [text |-> text]
          /\ ret' = _fuzzy_match_intent(Self, text)
    /\ fn' = "_fuzzy_match_intent"
    /\ UNCHANGED <<sessionVars, phoneVars, loopVars>>

call_calculate_confidence ==
    /\ fn = ""
    /\ \E text \in {"", "help", "xyzabc123", "unclear mumbling", "bid 100 dollars",
                     "list auctions",
                     "auctions show display list current available browse",
                     "please show me all the auctions that are open now",
                     "i would like to know what the current highest bid is on the old clock right now",
                     "i would like to know what the current highest bid is on the old clock right now before it ends today please"},
          intent \in Intents \cup {"unknown"}, pattern_match \in BOOLEAN :
          /\ input' = text
          /\ arg' = [text |-> text, intent |-> intent, pattern_match |-> pattern_match]
          /\ ret' = _calculate_confidence(Self, text, intent, pattern_match)
    /\ fn' = "_calculate_confidence"
    /\ UNCHANGED <<sessionVars, phoneVars, loopVars>>

call_extract_bid_amount ==
    /\ fn = ""
    /\ \E text \in Utterances :
          /\ input' = text
          /\ arg' = [text |-> text]
          /\ ret' = _extract_bid_amount(text)
    /\ fn' = "_extract_bid_amount"
    /\ UNCHANGED <<sessionVars, phoneVars, loopVars>>

\* the amounts offered for validation, in cents: around the limits of 1 and
\* 10,000,000 dollars and around the current bids of the inventories
call_validate_bid_amount ==
    /\ fn = ""
    /\ \E response \in Responses,
          bid_amount \in {0, 50, Dollars(1), Dollars(50), Dollars(100), Dollars(150) + 1,
                          Dollars(10000000), Dollars(10000000) + 1,
                          Dollars(20000000), Dollars(20000000) + 1} :
          /\ arg' = [response |-> response, bid_amount |-> bid_amount]
          /\ ret' = _validate_bid_amount(response, bid_amount)
    /\ fn' = "_validate_bid_amount"
    /\ UNCHANGED <<sessionVars, phoneVars, loopVars, input>>

\* the instant of the calls of the agent, in milliseconds
Now == 1000000

EndTime(offset) == [text |-> "iso", at |-> Now + offset]

\* the auction of test_enhanced_bid_placement, ending at Now + offset
TestAuction(offset) ==
    [_id |-> "123", name |-> "Test Auction", currentBid |-> Dollars(100),
     totalBids |-> "5", status |-> "active", endTime |-> EndTime(offset),
     category |-> "Electronics", description |-> "Test item"]

\* what the service lists: the test's auction ended or still running for
\* 0.5 s, 5 s, 2 min, 1 h, 1 d; auctions with fields missing, a malformed
\* count, an unreadable endTime; several auctions under one id
Listings ==
    {<< TestAuction(offset) >> : offset \in {-1000, 0, 500, 5000, 125000, 3725000, 90061000}}
    \cup {<< >>,
          << [_id |-> "123"] >>,
          << [_id |-> "123", status |-> "active"] >>,
          << [_id |-> "123", status |-> "ended", currentBid |-> Dollars(100),
              endTime |-> EndTime(-1000)] >>,
          << [_id |-> "123", status |-> "active", currentBid |-> Dollars(100),
              totalBids |-> "many", endTime |-> EndTime(5000)] >>,
          << [_id |-> "456", status |-> "active", currentBid |-> Dollars(10)],
             [_id |-> "123", status |-> "active", currentBid |-> 12050,
              suggestedBid |-> Dollars(130), category |-> "Art",
              endTime |-> [text |-> "soon", at |-> 0]],
             [_id |-> "123", status |-> "ended"] >>}

PostAnswers ==
    {[raises |-> "", details |-> "", status_code |-> 200, content |-> TRUE,
      json |-> [message |-> "Bid placed successfully"]],
     [raises |-> "", details |-> "", status_code |-> 400, content |-> TRUE,
      json |-> [message |-> "Bid too low"]],
     [raises |-> "", details |-> "", status_code |-> 200, content |-> FALSE, json |-> << >>],
     [raises |-> "RequestException", details |-> "timed out", status_code |-> 0,
      content |-> FALSE, json |-> << >>],
     [raises |-> "ValueError", details |-> "no JSON", status_code |-> 200,
      content |-> TRUE, json |-> << >>]}

call_place_bid_enhanced ==
    /\ fn = ""
    /\ \E auctions \in Listings, format \in {"list", "dict", "error"},
          answer \in PostAnswers, auction_id \in {"123", "999"},
          bid_amount \in {Dollars(100), Dollars(150), 12050 + 1} :
          /\ arg' = [response |->
                        IF format = "error" THEN NoAnswer
                        ELSE [raises |-> FALSE, status_code |-> 200, format |-> format,
                              auctions |-> auctions],
                     now |-> Now, answer |-> answer,
                     auction_id |-> auction_id, bid_amount |-> bid_amount,
                     bidder_name |-> "Test User"]
          /\ place_bid_enhanced(arg'.response, Now, answer, auction_id, bid_amount,
                                "Test User")
    /\ fn' = "place_bid_enhanced"
    /\ UNCHANGED <<openai_api_key, conversation_history, user_context, session_stats,
                   clock, returned, log, calls, input, phoneVars, loopVars>>

call_process_command ==
    /\ fn = ""
    /\ \E input_text \in Utterances :
          /\ input' = input_text
          /\ arg' = [input_text |-> input_text]
          /\ ret' = process_command(Self, input_text)
    /\ fn' = "process_command"
    /\ UNCHANGED <<sessionVars, phoneVars, loopVars>>

call_process_with_advanced_nlp ==
    /\ fn = ""
    /\ \E user_input \in Utterances, response \in Responses :
          /\ input' = user_input
          /\ arg' = [user_input |-> user_input, response |-> response]
          /\ ret' = process_with_advanced_nlp(Self, response, user_input)
    /\ fn' = "process_with_advanced_nlp"
    /\ UNCHANGED <<sessionVars, phoneVars, loopVars>>

NextUnit ==
    \/ UnitTurn
    \/ call_preprocess_text
    \/ call_preprocess_text_again
    \/ call_fuzzy_match_intent
    \/ call_calculate_confidence
    \/ call_extract_bid_amount
    \/ call_validate_bid_amount
    \/ call_place_bid_enhanced
    \/ call_process_command
    \/ call_process_with_advanced_nlp

SpecUnit == Init /\ [][NextUnit]_vars

-----------------------------------------------------------------------------
(* SpecConc: process_voice_command called by concurrent requests.  The     *)
(* Flask application of twilio_voice_integration.py serves each request in *)
(* a thread of its own and every request calls process_voice_command on    *)
(* the one module-level processor; nothing locks it.  A call runs in the   *)
(* steps below, and the steps of different workers interleave.  The        *)
(* statement of line 742 is two steps: its right-hand side reads the list  *)
(* and builds the slice, then the attribute is bound to the slice.         *)
(* The first WarmupCalls calls run one at a time.                          *)

WarmupCalls == 50

MaxCalls == 52

\* lines 711-736: the user context is created and counted, the command is
\* processed and the conversation entry is built
begin_call(w) ==
    /\ calls[w].pc = "idle"
    /\ clock < MaxCalls
    /\ clock < WarmupCalls => \A v \in Workers : calls[v].pc = "idle"
    /\ \E user_id \in (IF clock < WarmupCalls THEN {"test_user"} ELSE Users) :
          /\ user_context' = counted_user(known_user(user_context, user_id), user_id)
          /\ calls' = [calls EXCEPT ![w] =
                [pc |-> "append", user_id |-> user_id, kept |-> << >>,
                 entry |-> conversation_entry(
                    "help", user_id,
                    IF openai_api_key
                    THEN process_with_openai(Self, LLMFailure, NoAnswer, "help")
                    ELSE [result |-> process_with_advanced_nlp(Self, NoAnswer, "help"),
                          session_stats |-> session_stats])]]
    /\ session_stats' = calls'[w].entry.session_stats
    /\ clock' = clock + 1
    /\ UNCHANGED <<openai_api_key, conversation_history, returned, log, agent, posted, unitVars, phoneVars, loopVars>>

\* line 738: self.conversation_history.append(conversation_entry)
append_entry(w) ==
    /\ calls[w].pc = "append"
    /\ conversation_history' = Append(conversation_history, calls[w].entry)
    /\ log' = Append(log, calls[w].entry)
    /\ calls' = [calls EXCEPT ![w].pc = "test"]
    /\ UNCHANGED <<openai_api_key, user_context, session_stats, clock, returned, agent, posted, unitVars, phoneVars, loopVars>>

\* line 741: if len(self.conversation_history) > 50
test_length(w) ==
    /\ calls[w].pc = "test"
    /\ calls' = [calls EXCEPT ![w].pc =
                    IF Len(conversation_history) > HistoryLimit THEN "slice" ELSE "update"]
    /\ UNCHANGED <<openai_api_key, conversation_history, user_context, session_stats,
                   clock, returned, log, agent, posted, unitVars, phoneVars, loopVars>>

\* line 742, right-hand side: self.conversation_history[-50:]
slice_history(w) ==
    /\ calls[w].pc = "slice"
    /\ calls' = [calls EXCEPT ![w].pc = "store",
                              ![w].kept = last_entries(conversation_history, HistoryLimit)]
    /\ UNCHANGED <<openai_api_key, conversation_history, user_context, session_stats,
                   clock, returned, log, agent, posted, unitVars, phoneVars, loopVars>>

\* line 742, assignment: self.conversation_history = <the slice>
store_history(w) ==
    /\ calls[w].pc = "store"
    /\ conversation_history' = calls[w].kept
    /\ calls' = [calls EXCEPT ![w].pc = "update", ![w].kept = << >>]
    /\ UNCHANGED <<openai_api_key, user_context, session_stats, clock, returned, log,
                   agent, posted, unitVars, phoneVars, loopVars>>

\* lines 745-751: last_intent and success_rate are updated, the result is returned
end_call(w) ==
    /\ calls[w].pc = "update"
    /\ context_update(user_context, calls[w].user_id, calls[w].entry.result)
    /\ calls' = [calls EXCEPT ![w] = Idle]
    /\ UNCHANGED <<openai_api_key, conversation_history, session_stats, clock, log,
                   agent, posted, unitVars, phoneVars, loopVars>>

NextConc ==
    \E w \in Workers :
        \/ begin_call(w)
        \/ append_entry(w)
        \/ test_length(w)
        \/ slice_history(w)
        \/ store_history(w)
        \/ end_call(w)

SpecConc == Init /\ [][NextConc]_vars

-----------------------------------------------------------------------------
(* SpecPhone: the routes of the telephone service, requested in any order  *)
(* by two callers.  The language model is out of reach, so every result is *)
(* one of process_with_advanced_nlp.                                       *)

\* the calls of process_voice_command the telephone session may make
MaxPhoneTurns == 2

\* the bid requests the telephone session may post
MaxBidRequests == 2

Callers == {"+15550100", "+15550101"}

PhoneAuction(id, name, status, currentBid, totalBids) ==
    [_id |-> id, name |-> name, status |-> status, currentBid |-> currentBid,
     totalBids |-> totalBids]

\* what the inventory answers to agent.get_auctions(): nothing, one auction
\* below the bid, three auctions of which the busiest active one is below
\* the bid, one auction above the bid
PhoneInventories ==
    {NoAnswer,
     [raises |-> FALSE, status_code |-> 200, format |-> "list",
      auctions |-> << PhoneAuction("a1", "Vase", "active", Dollars(50), 3) >>],
     [raises |-> FALSE, status_code |-> 200, format |-> "dict",
      auctions |-> << PhoneAuction("a1", "Vase", "active", Dollars(50), 3),
                      PhoneAuction("a2", "Clock", "active", Dollars(75), 7),
                      PhoneAuction("a3", "Lamp", "ended", Dollars(900), 9) >>],
     [raises |-> FALSE, status_code |-> 200, format |-> "list",
      auctions |-> << PhoneAuction("a4", "Chair", "active", Dollars(150), 1) >>]}

\* what the caller says to /voice/process
PhoneCommands == {"", "help", "Bid 100 Dollars "}

\* what the caller says to /voice/confirm_bid
PhoneReplies == {"Not okay", "no", "maybe"}

\* what the bid service answers: accepted, refused with a
\* message, refused with a JSON array, out of reach
BidAnswers ==
    {[raises |-> "", status_code |-> 200, json |-> "object",
      message |-> << "Bid placed successfully" >>],
     [raises |-> "", status_code |-> 400, json |-> "object", message |-> << "Bid too low" >>],
     [raises |-> "", status_code |-> 400, json |-> "array", message |-> << >>],
     [raises |-> "RequestException", status_code |-> 0, json |-> "none", message |-> << >>]}

post_voice_welcome == welcome

post_voice_process ==
    /\ clock < MaxPhoneTurns
    /\ \E SpeechResult \in PhoneCommands, From \in Callers, inventory \in PhoneInventories :
          process_speech(SpeechResult, From, LLMFailure, NoAnswer, inventory)

post_voice_confirm_bid ==
    /\ Len(bid_requests) < MaxBidRequests
    /\ \E SpeechResult \in PhoneReplies, From \in Callers, answer \in BidAnswers :
          confirm_bid(SpeechResult, From, answer)

post_voice_hangup == \E From \in Callers : hangup(From)

NextPhone ==
    \/ post_voice_welcome
    \/ post_voice_process
    \/ post_voice_confirm_bid
    \/ post_voice_hangup

SpecPhone == Init /\ [][NextPhone]_vars

-----------------------------------------------------------------------------
(* SpecAgent: the voice agent started once; each iteration of its loop     *)
(* listens and handles what it heard.  The language model is out of reach  *)
(* and the inventory does not answer the validator, so every result is one *)
(* of process_with_advanced_nlp with a bid assumed valid.                  *)

\* the commands the agent may handle in a session
MaxCommands == 2

Hearing(raises, text, confidence) ==
    [raises |-> raises, text |-> text, confidence |-> confidence]

\* what the loop's call of listen_enhanced meets: a timeout, two commands,
\* an exception and the user's interrupt
LoopHearings ==
    {Hearing("", "", Q(0, 1)),
     Hearing("", "help", Q(95, 100)),
     Hearing("", "Bid 10000 ", Q(9, 10)),
     Hearing("OSError", "", Q(0, 1)),
     Hearing("KeyboardInterrupt", "", Q(0, 1))}

\* what the handler's call of listen_enhanced meets
ConfirmationHearings ==
    {Hearing("", "", Q(0, 1)),
     Hearing("", "Yes please", Q(9, 10)),
     Hearing("", "no", Q(9, 10)),
     Hearing("", "maybe", Q(8, 10))}

\* what the service lists: nothing, or the test's auction with 5 s to run
AgentListings ==
    {NoAnswer,
     [raises |-> FALSE, status_code |-> 200, format |-> "list",
      auctions |-> << TestAuction(5000) >>]}

\* what the service answers to a bid: accepted, refused
AgentAnswers ==
    {[raises |-> "", details |-> "", status_code |-> 200, content |-> TRUE,
      json |-> [message |-> "Bid placed successfully"]],
     [raises |-> "", details |-> "", status_code |-> 400, content |-> TRUE,
      json |-> [message |-> "Bid too low"]]}

listening_iteration ==
    \E said \in LoopHearings, listing \in AgentListings, hearing \in ConfirmationHearings,
       relisting \in AgentListings, answer \in AgentAnswers :
        /\ strip(said.text) # "" => clock < MaxCommands
        /\ iteration(said, LLMFailure, NoAnswer, listing, hearing, relisting, answer, Now)

NextAgent ==
    \/ start_enhanced_listening
    \/ listening_iteration

SpecAgent == Init /\ [][NextAgent]_vars

-----------------------------------------------------------------------------
(* Properties                                                               *)

\* C1: the confidence of every result of process_command, and of every final
\* result of process_with_advanced_nlp after its adjustments for the bid
\* validation, lies between 0.0 and 0.99, whatever the utterance and the history.
C1_ConfidenceInRange ==
    fn \in {"process_command", "process_with_advanced_nlp"} =>
        /\ QLeq(Q(0, 1), ret.confidence)
        /\ QLeq(ret.confidence, Q(99, 100))

\* a bid found valid after a recorded turn: the +0.1 meets the cap
C1_Witness ==
    /\ fn = "process_with_advanced_nlp"
    /\ Len(conversation_history) > 0
    /\ ret.intent = "bidding"
    /\ ret.bid_amount # << >>
    /\ ret.validation.is_valid
    /\ ret.confidence = Q(99, 100)

\* C2: the conversation history never holds more than 50 entries, and it is
\* always the 50 most recent recorded turns in their order of arrival (all the
\* turns while there are at most 50): trimming alone deletes, the oldest first.
C2_HistoryBound ==
    /\ Len(conversation_history) <= 50
    /\ conversation_history =
          SubSeq(log, IF Len(log) > 50 THEN Len(log) - 49 ELSE 1, Len(log))

\* more than 50 turns were recorded and the oldest was dropped
C2_Witness ==
    /\ Len(log) > 50
    /\ Len(conversation_history) = 50
    /\ conversation_history[1] = log[Len(log) - 49]
    /\ conversation_history[1] # log[1]

\* C3: sessions are isolated per user id: a turn recorded for one user id
\* leaves the recorded history and the last_intent of every other user id unchanged.
C3_SessionIsolation ==
    [][\A b \in Users :
          (Len(log') = Len(log) + 1 /\ log'[Len(log')].user_id # b) =>
              /\ SelectSeq(conversation_history', LAMBDA e : e.user_id = b)
                    = SelectSeq(conversation_history, LAMBDA e : e.user_id = b)
              /\ b \in DOMAIN user_context =>
                    user_context'[b].last_intent = user_context[b].last_intent]_vars

\* C4: when _calculate_confidence is called for the intent of the turn recorded
\* last by process_voice_command, its sum includes the +0.05 of context
\* continuity; with another intent recorded last the term is 0.
C4_ContextContinuity ==
    (fn = "_calculate_confidence" /\ conversation_history # << >>) =>
        ret = total_confidence(
                 _calculate_confidence([conversation_history |-> << >>],
                                       arg.text, arg.intent, arg.pattern_match)
                 + (IF conversation_history[Len(conversation_history)].result.intent
                          = arg.intent
                    THEN 5 ELSE 0))

\* C5: _preprocess_text is idempotent: applied to its own result it returns it unchanged.
C5_PreprocessIdempotent ==
    fn = "_preprocess_text twice" => ret = arg.text

\* C6: on a text that is a single keyword ('bid', 'list', 'help', 'status',
\* 'insights') _fuzzy_match_intent returns the intent of that keyword with a
\* confidence above 0.5.
C6_LoneKeyword ==
    \A pair \in {<<"bid", "bidding">>, <<"list", "listing">>, <<"help", "help">>,
                 <<"status", "status">>, <<"insights", "insights">>} :
        (fn = "_fuzzy_match_intent" /\ arg.text = pair[1]) =>
            /\ ret[1] = pair[2]
            /\ QLess(Q(1, 2), ret[2])

\* C7: when the normalized utterance is exactly 'help', process_command
\* returns the intent help with confidence exactly 0.98.
C7_HelpConfidence ==
    (fn = "process_command" /\ _preprocess_text(arg.input_text) = "help") =>
        /\ ret.intent = "help"
        /\ ret.confidence = Q(98, 100)

\* C7, as the code has it: when the normalized utterance is exactly 'help',
\* process_command returns the intent help by pattern match with confidence
\* exactly 0.99: the 0.98 set for that text plus the confidence_boost of help
\* (0.15), capped at 0.99.
C7_HelpConfidenceBoosted ==
    (fn = "process_command" /\ _preprocess_text(arg.input_text) = "help") =>
        /\ ret.intent = "help"
        /\ ret.method = "pattern_match"
        /\ ret.confidence = Q(99, 100)

\* an utterance other than 'help' itself that normalizes to 'help' was classified
C7_Witness ==
    /\ fn = "process_command"
    /\ arg.input_text # "help"
    /\ _preprocess_text(arg.input_text) = "help"
    /\ ret.intent = "help"

\* C8: without a language-model key, after N calls of process_voice_command
\* total_commands is N, successful_commands is at least 0 and accuracy_score
\* at most 1.0.
C8_StatsTrackCommands ==
    ~openai_api_key =>
        /\ session_stats.total_commands = clock
        /\ session_stats.successful_commands >= 0
        /\ QLeq(session_stats.accuracy_score, Q(1, 1))

\* C9: process_with_advanced_nlp classifies the empty input and a nonsense
\* token of letters followed by digits as unknown, with confidence at most 0.2.
C9_NonsenseIsUnknown ==
    (fn = "process_with_advanced_nlp" /\ arg.user_input \in {"", "xyzabc123"}) =>
        /\ ret.intent = "unknown"
        /\ QLeq(ret.confidence, Q(2, 10))

\* C10: process_command returns for every input string, the empty one
\* included, a result whose intent is one of bidding, listing, status, help,
\* greeting, insights, unknown and whose method is one of pattern_match,
\* fuzzy_match, keyword_match, no_match; it never raises: every match of a
\* bidding pattern captured a number for float() to read.
C10_ProcessCommandTotal ==
    fn = "process_command" =>
        /\ ret.intent \in {"bidding", "listing", "status", "help", "greeting",
                           "insights", "unknown"}
        /\ ret.method \in {"pattern_match", "fuzzy_match", "keyword_match", "no_match"}
        /\ \A k \in 1..Len(bidding_patterns) :
              re_search(bidding_patterns[k], _preprocess_text(arg.input_text)).found =>
                 re_search(bidding_patterns[k],
                           _preprocess_text(arg.input_text)).group # NoGroup

\* the empty string went through every stage and came out as no match
C10_Witness ==
    /\ fn = "process_command"
    /\ arg.input_text = ""
    /\ ret.intent = "unknown"
    /\ ret.method = "no_match"


\* C11: _extract_bid_amount returns None or an amount between 0.01 and
\* 10,000,000; a candidate out of that range is passed over and the search goes
\* on, so that a text with a bidding keyword and a number in range yields an
\* amount; a text with no digit yields None.
C11_ExtractedInRange ==
    fn = "_extract_bid_amount" =>
        /\ ret = << >> \/ (1 <= ret[1] /\ ret[1] <= Dollars(10000000))
        /\ (\A i \in 1..Len(arg.text) : Char(arg.text, i) \notin Digits) => ret = << >>
        /\ ( /\ \E k \in 1..Len(bidding_keywords) :
                   contains(lower(arg.text), bidding_keywords[k])
             /\ \E j \in 1..Len(re_findall(NUM, arg.text)) :
                   /\ 1 <= float(re_findall(NUM, arg.text)[j])
                   /\ float(re_findall(NUM, arg.text)[j]) <= Dollars(10000000) )
           => ret # << >>

\* the first number was out of range and a later one was returned
C11_Witness ==
    /\ fn = "_extract_bid_amount"
    /\ arg.text = "bid 20000000 then 30"
    /\ ret = << Dollars(30) >>


\* C12: for an utterance 'bid N dollars' with 10 < N <= 10000 the result
\* process_with_advanced_nlp returns has the intent bidding, the bid amount N
\* and a confidence of at least 0.95.
C12_BidUtterance ==
    \A pair \in {<<"bid 11 dollars", 11>>, <<"bid 100 dollars", 100>>,
                 <<"bid 10000 dollars", 10000>>} :
        (fn = "process_with_advanced_nlp" /\ arg.user_input = pair[1]) =>
            /\ ret.intent = "bidding"
            /\ ret.bid_amount = << Dollars(pair[2]) >>
            /\ QLeq(Q(95, 100), ret.confidence)

\* C13: when the inventory service answers with an active auction,
\* _validate_bid_amount accepts a bid exactly when it is above the highest
\* current bid and between 1 and 10,000,000; every bid above 10,000,000 is
\* rejected as too high, every bid below 1 as too low, and a bid not above the
\* highest current bid is rejected with a minimum bid.
C13_ValidationReasons ==
    LET active == SelectSeq(arg.response.auctions,
                            LAMBDA a : "status" \in DOMAIN a /\ a.status = "active")
        highest == Max({IF "currentBid" \in DOMAIN active[k]
                        THEN active[k].currentBid ELSE 0 : k \in 1..Len(active)})
    IN  ( /\ fn = "_validate_bid_amount"
          /\ ~arg.response.raises /\ arg.response.status_code = 200
          /\ arg.response.format \in {"list", "dict"}
          /\ active # << >> ) =>
            /\ ret.is_valid <=> ( /\ arg.bid_amount > highest
                                  /\ Dollars(1) <= arg.bid_amount
                                  /\ arg.bid_amount <= Dollars(10000000) )
            /\ arg.bid_amount > Dollars(10000000) =>
                  ret.reason = "Bid amount too high (maximum $10,000,000)"
            /\ arg.bid_amount < Dollars(1) =>
                  ret.reason = "Bid amount too low (minimum $1)"
            /\ arg.bid_amount <= highest => "minimum_bid" \in DOMAIN ret

\* C13, as the code has it: the bid is accepted exactly when it is above the
\* highest current bid and between 1 and 10,000,000; a bid not above the
\* highest current bid is rejected with that bid plus 1 as the minimum bid,
\* whatever its size; of the bids above the highest current bid, those above
\* 10,000,000 are rejected as too high and those below 1 as too low.
C13_ValidationOrder ==
    LET active == SelectSeq(arg.response.auctions,
                            LAMBDA a : "status" \in DOMAIN a /\ a.status = "active")
        highest == Max({IF "currentBid" \in DOMAIN active[k]
                        THEN active[k].currentBid ELSE 0 : k \in 1..Len(active)})
    IN  ( /\ fn = "_validate_bid_amount"
          /\ ~arg.response.raises /\ arg.response.status_code = 200
          /\ arg.response.format \in {"list", "dict"}
          /\ active # << >> ) =>
            /\ ret.is_valid <=> ( /\ arg.bid_amount > highest
                                  /\ Dollars(1) <= arg.bid_amount
                                  /\ arg.bid_amount <= Dollars(10000000) )
            /\ arg.bid_amount <= highest =>
                  /\ ret.reason = "Bid must be higher than current highest bid"
                  /\ ret.current_bid = highest
                  /\ ret.minimum_bid = highest + Dollars(1)
            /\ (arg.bid_amount > highest /\ arg.bid_amount > Dollars(10000000)) =>
                  ret.reason = "Bid amount too high (maximum $10,000,000)"
            /\ (arg.bid_amount > highest /\ arg.bid_amount < Dollars(1)) =>
                  ret.reason = "Bid amount too low (minimum $1)"

\* a bid below 1 that is not above the highest current bid was rejected with
\* a minimum bid
C13_Witness ==
    /\ fn = "_validate_bid_amount"
    /\ arg.bid_amount = 50
    /\ ~ret.is_valid
    /\ "minimum_bid" \in DOMAIN ret
    /\ ret.minimum_bid = Dollars(51)

\* C14: under any interleaving of concurrent process_voice_command calls the
\* appending and trimming of the history act as one atomic step: once the calls
\* have completed, no turn they recorded is missing (the history is the last 50
\* of the entries appended, in their order) and the history holds at most 50.
C14_AtomicAppendTrim ==
    (\A w \in Workers : calls[w].pc = "idle") =>
        /\ Len(conversation_history) <= 50
        /\ conversation_history =
              SubSeq(log, IF Len(log) > 50 THEN Len(log) - 49 ELSE 1, Len(log))

\* the command_count of a user id, 0 while the processor has no context for it
command_count_of(context, user_id) ==
    IF user_id \in DOMAIN context THEN context[user_id].command_count ELSE 0

\* C15: every process_voice_command call raises the command_count of the user
\* id it was called with by exactly 1 and leaves the counters of the other user
\* ids alone, no counter ever decreases, and when the call returns a result the
\* last_intent of its user id is the intent of that result.
C15_TurnCounter ==
    [][\A user_id \in Users :
          /\ command_count_of(user_context', user_id)
                >= command_count_of(user_context, user_id)
          /\ clock' = clock + 1 =>
                /\ command_count_of(user_context', user_id)
                      = command_count_of(user_context, user_id)
                        + (IF log'[Len(log')].user_id = user_id THEN 1 ELSE 0)
                /\ (/\ log'[Len(log')].user_id = user_id
                    /\ "raised" \notin DOMAIN returned'[1]) =>
                      user_context'[user_id].last_intent = returned'[1].intent]_vars

\* a user in their second or later call, which returned, after another user called
C15_Witness ==
    /\ DOMAIN user_context = Users
    /\ log # << >>
    /\ user_context[log[Len(log)].user_id].command_count >= 2
    /\ "raised" \notin DOMAIN returned[1]
    /\ user_context[log[Len(log)].user_id].last_intent = returned[1].intent
    /\ user_context[log[Len(log)].user_id].last_intent # "None"

\* C16: _preprocess_text('um, bid 100 dollars please') is the canonical words
\* with the filler removed, 'bid 100 dollars please'; the correction table
\* rewrites the listed error phrases ('place a bit', 'show me options',
\* 'current price', 'i want to buy') and leaves the other words as they were,
\* so a lower-case text of plain words without a listed phrase or a filler
\* comes back unchanged.
C16_FillerAndCorrections ==
    fn = "_preprocess_text" =>
        /\ arg.text = "um, bid 100 dollars please" => ret = "bid 100 dollars please"
        /\ arg.text = "place a bit of 200" => ret = "place a bid of 200"
        /\ arg.text = "show me options" => ret = "show me auctions"
        /\ arg.text = "i want to buy this" => ret = "i want to bid this"
        /\ arg.text \in {"bid 100 dollars", "habit", "take it for 20",
                         "offer 75 bucks", "list auctions"} => ret = arg.text

\* the auction place_bid_enhanced looks at in the last direct call: the first
\* listed auction with the id asked for, none when there is none
bid_target == target_of(get_auctions_enhanced(arg.response, arg.now), arg.auction_id)

\* C17: place_bid_enhanced posts a bid only when the auction id is found, the
\* auction is active, the amount exceeds its current bid and its time
\* remaining is not 'Ended'; otherwise it returns (False, error) with the error
\* code of the first check that failed and posts nothing; and for an active
\* auction and an amount above its current bid it posts exactly one request
\* and returns the success of the service (the answer has status 200).
C17_BidRequestGuard ==
    fn = "place_bid_enhanced" =>
        /\ posted # << >> =>
              /\ bid_target # << >>
              /\ bid_target[1].status = "active"
              /\ arg.bid_amount > bid_target[1].current_bid
              /\ bid_target[1].time_remaining # "Ended"
        /\ bid_target = << >> =>
              /\ posted = << >> /\ ret[1] = FALSE
              /\ ret[2].error_code = "AUCTION_NOT_FOUND"
        /\ (bid_target # << >> /\ bid_target[1].status # "active") =>
              /\ posted = << >> /\ ret[1] = FALSE
              /\ ret[2].error_code = "AUCTION_NOT_ACTIVE"
        /\ (/\ bid_target # << >> /\ bid_target[1].status = "active"
            /\ arg.bid_amount <= bid_target[1].current_bid) =>
              /\ posted = << >> /\ ret[1] = FALSE
              /\ ret[2].error_code = "BID_TOO_LOW"
        /\ (/\ bid_target # << >> /\ bid_target[1].status = "active"
            /\ arg.bid_amount > bid_target[1].current_bid
            /\ bid_target[1].time_remaining = "Ended") =>
              /\ posted = << >> /\ ret[1] = FALSE
              /\ ret[2].error_code = "AUCTION_ENDED"
        /\ (/\ bid_target # << >> /\ bid_target[1].status = "active"
            /\ arg.bid_amount > bid_target[1].current_bid
            /\ arg.answer.raises = "") =>
              /\ Len(posted) = 1
              /\ ret[1] = (arg.answer.status_code = 200)

\* for each bidding pattern, in list order, the amount it captures in the
\* text: << >> when the pattern does not match
captured_amounts(text) ==
    [k \in 1..Len(bidding_patterns) |->
        IF re_search(bidding_patterns[k], text).found
        THEN << float(re_search(bidding_patterns[k], text).group) >> ELSE << >>]

\* the bidding patterns that match with an amount above 0
positive_matches(amounts) ==
    {k \in 1..Len(amounts) : amounts[k] # << >> /\ amounts[k][1] > 0}

\* the other intents, as places in the registry, with a pattern matching the text
matching_intents(text) ==
    {k \in 1..Len(command_patterns) :
        /\ command_patterns[k].intent # "bidding"
        /\ matches_any(command_patterns[k].patterns, text)}

bidding_decides(result, amounts, matching) ==
    IF matching # {}
    THEN /\ result.intent = "bidding"
         /\ result.method = "pattern_match"
         /\ result.data = [bid_amount |-> amounts[Min(matching)][1]]
    ELSE ~(result.intent = "bidding" /\ result.method = "pattern_match")

\* C18: when some bidding pattern matches the normalized text with an amount
\* above 0, process_command returns bidding by pattern_match whatever other
\* intents match, with the amount of the first such pattern in list order; a
\* match with amount 0 decides nothing, and without a positive match the
\* result is not a bidding pattern match.
C18_BiddingFirst ==
    fn = "process_command" =>
        bidding_decides(ret, captured_amounts(_preprocess_text(arg.input_text)),
            positive_matches(captured_amounts(_preprocess_text(arg.input_text))))

first_match_is_zero(amounts, matching) ==
    /\ matching # {}
    /\ \E k \in 1..(Min(matching) - 1) : amounts[k] = << 0 >>

\* a text in which a bidding pattern captures 0, a later one captures a
\* positive amount and a help pattern matches as well; bidding is returned
C18_Witness ==
    /\ fn = "process_command"
    /\ first_match_is_zero(captured_amounts(_preprocess_text(arg.input_text)),
          positive_matches(captured_amounts(_preprocess_text(arg.input_text))))
    /\ matching_intents(_preprocess_text(arg.input_text)) # {}
    /\ ret.intent = "bidding"
    /\ ret.data.bid_amount > 0

\* the confidence the contract gives a bidding match of an amount, in cents
contract_confidence(a) ==
    IF a < Dollars(10) THEN Hundredths(90)
    ELSE IF a = Dollars(10) THEN Hundredths(95)
    ELSE IF a <= Dollars(10000) THEN Hundredths(99)
    ELSE Hundredths(95)

\* C19: a bidding pattern match of process_command with amount a has
\* confidence 0.90 for a < 10, 0.95 for a = 10, 0.99 for 10 < a <= 10000 and
\* 0.95 for a > 10000.
C19_BiddingConfidence ==
    (fn = "process_command" /\ ret.intent = "bidding" /\ ret.method = "pattern_match") =>
        /\ ret.data.bid_amount > 0
        /\ ret.confidence = contract_confidence(ret.data.bid_amount)

\* a bid of exactly 10: the start value is 0.90 and the range boost applies
C19_Witness ==
    /\ fn = "process_command"
    /\ ret.intent = "bidding"
    /\ ret.method = "pattern_match"
    /\ ret.data.bid_amount = Dollars(10)
    /\ ret.confidence = Hundredths(95)

\* the place in the registry of the intent the loop over the other intents
\* ends with: the earliest of the matching intents of highest confidence
best_place(text, matching) ==
    Min({k \in matching :
            \A j \in matching :
                pattern_confidence(command_patterns[k], text)
                   >= pattern_confidence(command_patterns[j], text)})

highest_confidence_wins(result, text, matching) ==
    /\ result.method = "pattern_match"
    /\ result.intent = command_patterns[best_place(text, matching)].intent
    /\ result.confidence =
          Hundredths(pattern_confidence(command_patterns[best_place(text, matching)], text))

\* C20: when no bidding pattern decides, process_command goes through the
\* five other intents in ascending priority order and returns, of the intents
\* with a matching pattern, the one of highest confidence, the earlier one
\* when confidences are equal.
C20_HighestConfidence ==
    /\ \A k \in 1..Len(command_patterns) : command_patterns[k].priority = k
    /\ (/\ fn = "process_command"
        /\ positive_matches(captured_amounts(_preprocess_text(arg.input_text))) = {}
        /\ matching_intents(_preprocess_text(arg.input_text)) # {}) =>
          highest_confidence_wins(ret, _preprocess_text(arg.input_text),
                                  matching_intents(_preprocess_text(arg.input_text)))

\* two intents match with equal confidence and the earlier one is returned
C20_Witness ==
    /\ fn = "process_command"
    /\ positive_matches(captured_amounts(_preprocess_text(arg.input_text))) = {}
    /\ Cardinality(matching_intents(_preprocess_text(arg.input_text))) >= 2
    /\ ret.method = "pattern_match"
    /\ ret.intent =
          command_patterns[Min(matching_intents(_preprocess_text(arg.input_text)))].intent

\* the stage that answers: pattern tells whether the pattern stage produced a
\* result, fuzzy is the pair _fuzzy_match_intent returns, hits the places of
\* the keyword table whose keyword the text holds
answering_stage(pattern, fuzzy, hits) ==
    IF pattern THEN "pattern_match"
    ELSE IF QLess(Q(7, 10), fuzzy[2]) THEN "fuzzy_match"
    ELSE IF hits # {} THEN "keyword_match"
    ELSE "no_match"

keyword_hit_is_first(result, hits) ==
    result.method = "keyword_match" =>
        /\ result.intent = keyword_matches[Min(hits)][2]
        /\ result.confidence = Q(75, 100)

\* C21: the stages of process_command run in a fixed order, a later stage
\* only when the earlier ones produced nothing: fuzzy matching only when no
\* pattern of any intent matched the normalized text, the keyword lookup
\* only when the fuzzy confidence is at most 0.7, no_match only when the text
\* holds no keyword of the table; the method names the answering stage and a
\* keyword hit is the first table entry in the text, with confidence 0.75.
C21_StagesWhenNoPatternMatched ==
    fn = "process_command" =>
        /\ ret.method =
              answering_stage(
                 \/ \E k \in 1..Len(bidding_patterns) :
                       captured_amounts(_preprocess_text(arg.input_text))[k] # << >>
                 \/ matching_intents(_preprocess_text(arg.input_text)) # {},
                 _fuzzy_match_intent(Self, _preprocess_text(arg.input_text)),
                 keyword_hits(keyword_matches, _preprocess_text(arg.input_text)))
        /\ keyword_hit_is_first(ret,
              keyword_hits(keyword_matches, _preprocess_text(arg.input_text)))

\* C21, amended: as above, the pattern stage producing a result when a
\* bidding pattern captures an amount above 0 or a pattern of another intent
\* matches; a bidding pattern that captures 0 produces nothing and the later
\* stages run.
C21_StageOrder ==
    fn = "process_command" =>
        /\ ret.method =
              answering_stage(
                 \/ positive_matches(
                       captured_amounts(_preprocess_text(arg.input_text))) # {}
                 \/ matching_intents(_preprocess_text(arg.input_text)) # {},
                 _fuzzy_match_intent(Self, _preprocess_text(arg.input_text)),
                 keyword_hits(keyword_matches, _preprocess_text(arg.input_text)))
        /\ keyword_hit_is_first(ret,
              keyword_hits(keyword_matches, _preprocess_text(arg.input_text)))

\* the keyword stage answers a text holding two keywords of the table, with
\* the intent of the one that comes first in the table
C21_Witness ==
    /\ fn = "process_command"
    /\ ret.method = "keyword_match"
    /\ Cardinality(keyword_hits(keyword_matches, _preprocess_text(arg.input_text))) >= 2
    /\ ret.intent # keyword_matches[
          Max(keyword_hits(keyword_matches, _preprocess_text(arg.input_text)))][2]

\* the clarity term of the contract for a number of words, in hundredths
contract_clarity(words) ==
    IF words <= 1 THEN 5
    ELSE IF words <= 8 THEN 15
    ELSE IF words <= 15 THEN 10
    ELSE Max({0, 10 - 2 * (words - 15)})

\* the sum of the contract, in hundredths: k keywords of the intent in the text
contract_total(pattern_match, k, words, continuity, priority, boost) ==
    Min({99, 75 + (IF pattern_match THEN 20 ELSE 0) + Min({8 * k, 20})
                + contract_clarity(words) + continuity + (5 - priority) * 2 + boost})

\* the lower bounds test_confidence_calculation asks for, in hundredths
test_lower_bound(text, intent, pattern_match) ==
    IF text = "bid 100 dollars" /\ intent = "bidding" /\ pattern_match THEN 90
    ELSE IF text = "list auctions" /\ intent = "listing" /\ pattern_match THEN 85
    ELSE IF text = "help" /\ intent = "help" /\ pattern_match THEN 95
    ELSE IF intent \notin Intents THEN 20
    ELSE 0

all_reach_cap(text) ==
    \A k \in 1..Len(command_patterns) :
        command_patterns[k].intent # "bidding" =>
            /\ command_patterns[k].confidence_boost >= 10
            /\ pattern_confidence(command_patterns[k], text) = 99

\* the result is the matching intent of highest priority, with 0.99
highest_priority_matches(result, matching) ==
    /\ result.method = "pattern_match"
    /\ result.confidence = Hundredths(99)
    /\ \E k \in matching :
          /\ result.intent = command_patterns[k].intent
          /\ \A j \in matching : command_patterns[k].priority <= command_patterns[j].priority

\* C23: the start value of every intent other than bidding (0.90, or 0.96,
\* 0.97, 0.98 by the override rules) plus its confidence_boost reaches the cap,
\* so every pattern match of such an intent has confidence 0.99 and the intent
\* returned is the matching one of highest priority.
C23_AlwaysCapped ==
    fn = "process_command" =>
        /\ all_reach_cap(_preprocess_text(arg.input_text))
        /\ (/\ positive_matches(captured_amounts(_preprocess_text(arg.input_text))) = {}
            /\ matching_intents(_preprocess_text(arg.input_text)) # {}) =>
              highest_priority_matches(ret, matching_intents(_preprocess_text(arg.input_text)))

\* an override rule applies to the intent returned (0.96 for a status text
\* holding 'current') and the confidence is 0.99 all the same
C23_Witness ==
    /\ fn = "process_command"
    /\ ret.method = "pattern_match"
    /\ ret.intent = "status"
    /\ specific_confidence("status", _preprocess_text(arg.input_text)) = 96
    /\ ret.confidence = Hundredths(99)

\* C24: in every result of process_command the intent is 'unknown' exactly
\* when the method is 'no_match', and then the confidence is 0.1; a
\* 'fuzzy_match' result has a registered intent and a confidence above 0.7; a
\* 'keyword_match' result has confidence 0.75.
C24_MethodAndIntent ==
    fn = "process_command" =>
        /\ ret.intent = "unknown" <=> ret.method = "no_match"
        /\ ret.method = "no_match" => ret.confidence = Q(1, 10)
        /\ ret.method = "fuzzy_match" =>
              /\ ret.intent \in Intents
              /\ QLess(Q(7, 10), ret.confidence)
        /\ ret.method = "keyword_match" => ret.confidence = Q(75, 100)
        /\ ret.method \in {"pattern_match", "fuzzy_match", "keyword_match", "no_match"}

\* the fuzzy stage answered
C24_Witness ==
    /\ fn = "process_command"
    /\ ret.method = "fuzzy_match"
    /\ ret.intent \in Intents
    /\ patternScan[_preprocess_text(arg.input_text)].best.best_intent = "None"

\* C25: whenever process_command classifies an utterance as bidding by pattern
\* match with amount a, _extract_bid_amount on the original text returns a, so
\* process_with_advanced_nlp reports the pattern-matched bid with amount a and
\* never with no amount or another amount.
C25_MatcherExtractorAgree ==
    (/\ fn = "process_with_advanced_nlp"
     /\ ret.intent = "bidding"
     /\ ret.method = "pattern_match") =>
        /\ _extract_bid_amount(arg.user_input)
              = << process_command(Self, arg.user_input).data.bid_amount >>
        /\ ret.bid_amount
              = << process_command(Self, arg.user_input).data.bid_amount >>

\* the part of C25 that holds: the reported amount is the extractor's
C25_ReportsExtractorAmount ==
    (/\ fn = "process_with_advanced_nlp"
     /\ ret.intent = "bidding") =>
        ret.bid_amount = _extract_bid_amount(arg.user_input)

\* the inventory request raised or was answered with a status other than 200
request_failed(response) == response.raises \/ response.status_code # 200

\* C26: bid validation fails open.  When the inventory request raises or is
\* answered with a status other than 200, _validate_bid_amount returns
\* is_valid = TRUE for every amount, and process_with_advanced_nlp then
\* treats the extracted bid as valid: its confidence is that of
\* process_command plus 0.1, capped at 0.99; the result is an ordinary
\* classification result, never an exception.
C26_ValidationFailsOpen ==
    /\ (fn = "_validate_bid_amount" /\ request_failed(arg.response)) =>
          /\ ret.is_valid
          /\ ret.reason = IF arg.response.raises
                          THEN "Validation error - assuming valid"
                          ELSE "Cannot validate - assuming valid"
    /\ (/\ fn = "process_with_advanced_nlp"
        /\ request_failed(arg.response)
        /\ ret.intent = "bidding"
        /\ ret.bid_amount # << >>) =>
          /\ ret.validation.is_valid
          /\ ret.confidence
                = QMin(QAdd(process_command(Self, arg.user_input).confidence, Q(1, 10)),
                       Q(99, 100))
          /\ QLeq(ret.confidence, Q(99, 100))

\* a bid of 10 (confidence 0.95 from process_command) while the inventory
\* request raises: reported valid at the cap
C26_Witness ==
    /\ fn = "process_with_advanced_nlp"
    /\ arg.response.raises
    /\ arg.user_input = "bid 10"
    /\ ret.bid_amount = << Dollars(10) >>
    /\ ret.validation.reason = "Validation error - assuming valid"
    /\ ret.confidence = Q(99, 100)

\* the reply of the request handled by a step, as confirm_bid reads it
reply_heard == strip(lower(form'.SpeechResult))

\* the pending bid the caller of the request had before the step
pending_before == get_session_data(session_data, form'.From)

confirming == form'.path = "/voice/confirm_bid"

\* a bid request is posted only by confirm_bid, for the pending bid stored
\* for the caller of the request and on a reply containing a positive
\* response; it carries the amount and the auction of that pending bid and
\* the caller's own number
requests_guarded ==
    bid_requests' # bid_requests =>
        /\ confirming
        /\ pending_before # << >>
        /\ any_word_in(reply_heard, positive_responses)
        /\ bid_requests' = Append(bid_requests,
              bid_request(pending_before[1].auction_id, pending_before[1].amount,
                          form'.From))

\* after a positive or a negative reply the caller has no pending bid
cleared_after_reply ==
    (/\ confirming
     /\ pending_before # << >>
     /\ \/ any_word_in(reply_heard, positive_responses)
        \/ any_word_in(reply_heard, negative_responses)) =>
        get_session_data(session_data', form'.From) = << >>

\* an unclear reply leaves the pending bid stored and asks again
unclear_reprompts ==
    (/\ confirming
     /\ pending_before # << >>
     /\ ~any_word_in(reply_heard, positive_responses)
     /\ ~any_word_in(reply_heard, negative_responses)) =>
        /\ session_data' = session_data
        /\ bid_requests' = bid_requests
        /\ twiml'.gather = << "/voice/confirm_bid" >>

\* a caller with no pending bid is sent to the welcome step
no_pending_redirects ==
    (confirming /\ pending_before = << >>) =>
        /\ twiml'.redirect = "/voice/welcome"
        /\ twiml'.gather = << >>
        /\ bid_requests' = bid_requests
        /\ session_data' = session_data

\* a request of one caller leaves what is stored for the others
others_untouched ==
    form' # << >> =>
        \A caller \in DOMAIN session_data \ {form'.From} :
            /\ caller \in DOMAIN session_data'
            /\ session_data'[caller] = session_data[caller]

\* C27: in the telephone flow a bid request is issued only by confirm_bid,
\* only when a pending bid is stored for that caller and the reply contains
\* a positive response; after a positive or a negative reply the caller's
\* pending bid is cleared, so one stored pending bid leads to at most one bid
\* request; an unclear reply leaves it stored for a re-prompt; a caller with
\* no pending bid is redirected to the welcome step; one caller's pending
\* bid is never placed on behalf of another caller.
C27_TelephoneFlow ==
    [][/\ requests_guarded
       /\ cleared_after_reply
       /\ unclear_reprompts
       /\ no_pending_redirects
       /\ others_untouched]_vars

\* the clauses of C27 apart from the clearing of the pending bid
C27_GuardedFlow ==
    [][/\ requests_guarded
       /\ unclear_reprompts
       /\ no_pending_redirects
       /\ others_untouched]_vars

\* a pending bid that outlived a positive reply is requested a second time
C27_SecondRequest ==
    /\ Len(bid_requests) >= 2
    /\ bid_requests[1] = bid_requests[2]
    /\ form.path = "/voice/confirm_bid"
    /\ get_session_data(session_data, form.From) # << >>
    /\ clock = 1

\* the text of the confirmation the handler listened for in the step, None
\* when it did not listen or nothing was heard
confirmation_text == IF confirmation' = << >> THEN << >> ELSE confirmation'[1][1]

\* place_bid_enhanced was called in the step: the agent reports on the bid
bid_attempted ==
    \E k \in 1..Len(spoken') :
        spoken'[k] \in {"Your enhanced bid has been successfully placed",
                        "I couldn't place your bid"}

\* a bid is attempted, and a request posted, only in a step in which a
\* confirmation containing a positive response was heard
bid_only_confirmed ==
    (bid_attempted \/ posted' # posted) =>
        /\ confirmation_text # << >>
        /\ any_word_in(confirmation_text[1], agent_positive_responses)

\* the handler listened for a confirmation and got no text
confirmation_unheard == confirmation' # << >> /\ confirmation'[1][1] = << >>

\* C28: place_bid_enhanced is invoked for a bidding command only after a
\* confirmation utterance containing a positive response was heard; when
\* listening for the confirmation yields no text (a timeout, or nothing
\* recognized) the agent takes the "I didn't hear a confirmation. Bid
\* cancelled for safety" branch and places no bid.
C28_ConfirmedBids ==
    [][/\ bid_only_confirmed
       /\ confirmation_unheard =>
             /\ spoken' = << "Shall I proceed with this bid?",
                             "I didn't hear a confirmation. Bid cancelled for safety" >>
             /\ posted' = posted
             /\ ~bid_attempted]_vars

\* the part of C28 on the bids placed, and what the agent does say when no
\* confirmation is heard
C28_NoBidUnconfirmed ==
    [][/\ bid_only_confirmed
       /\ confirmation_unheard =>
             /\ spoken' = << "Shall I proceed with this bid?",
                             "I encountered an error processing your request" >>
             /\ posted' = posted
             /\ ~bid_attempted]_vars

\* a confirmation was asked for and nothing was heard
C28_Unheard ==
    /\ confirmation # << >>
    /\ confirmation[1][1] = << >>
    /\ spoken[1] = "Shall I proceed with this bid?"

\* an iteration of the loop in which listen_enhanced returned
listened == loop = "on" /\ heard' # << >>

\* an iteration in which an exception other than the user's interrupt was raised
iteration_raised ==
    /\ loop = "on"
    /\ heard' = << >>
    /\ spoken' # << "Enhanced voice assistant stopped" >>

\* the third listen attempt in a row without recognized text makes the
\* agent say it has trouble hearing and resets the counter
unheard_counted ==
    (/\ listened
     /\ heard'[1][1] = << >>
     /\ silences + 1 = max_consecutive_errors) =>
        /\ spoken' = << "I'm having trouble hearing you clearly" >>
        /\ consecutive_errors' = 0

\* a recognition resets the counter
recognition_resets ==
    (listened /\ heard'[1][1] # << >>) => consecutive_errors' = 0

\* an iteration that raised is counted, and the third in a row ends the loop
raised_counted ==
    iteration_raised =>
        /\ consecutive_errors' = consecutive_errors + 1
        /\ loop' = "over" <=> consecutive_errors + 1 >= max_consecutive_errors
        /\ loop' = "over" => spoken' = << "I'm experiencing technical difficulties" >>

\* C29: in start_enhanced_listening, after three consecutive listen attempts
\* that yield no recognized text the agent speaks the trouble-hearing message
\* and resets the counter to 0; a successful recognition resets the counter
\* to 0; three consecutive iterations that raise an unexpected exception end
\* the loop.
C29_ListeningCounter ==
    [][unheard_counted /\ recognition_resets /\ raised_counted]_vars

\* what holds of C29: recognitions reset the counter and three iterations
\* raising in a row end the loop
C29_ResetAndEnd == [][recognition_resets /\ raised_counted]_vars

\* the agent never says that it has trouble hearing, and the counter only
\* counts the iterations that raised
C29_NeverTroubleHearing ==
    /\ silences \in 0..(max_consecutive_errors - 1)
    /\ \A k \in 1..Len(spoken) : spoken[k] # "I'm having trouble hearing you clearly"
    /\ consecutive_errors \in 0..max_consecutive_errors
    /\ (heard # << >> /\ loop = "on") => consecutive_errors = 0

\* the loop ended by three iterations raising in a row
C29_Ended ==
    /\ loop = "over"
    /\ consecutive_errors = max_consecutive_errors
    /\ spoken = << "I'm experiencing technical difficulties" >>

\* three listen attempts in a row were without text
C29_ThreeSilences ==
    /\ loop = "on"
    /\ heard # << >>
    /\ heard[1][1] = << >>
    /\ silences = 0
    /\ spoken = << >>

\* C30: successful_commands never exceeds command_count after any sequence
\* of handled commands: each handled command adds 1 to command_count and at
\* most 1 to successful_commands, so the success rate of the session summary
\* is at most 100%.
C30_SuccessRate ==
    /\ agent.user_session.successful_commands <= agent.user_session.command_count
    /\ success_rate # << >> => QLeq(success_rate[1], Q(100, 1))

\* a handled command adds 1 to command_count and 0 or 2 to
\* successful_commands: a bid that succeeded is counted by
\* place_bid_enhanced and again by the handler
C30_CountedTwice ==
    [][/\ agent'.user_session.command_count - agent.user_session.command_count
             = (IF clock' # clock THEN 1 ELSE 0)
       /\ agent'.user_session.successful_commands - agent.user_session.successful_commands
             = (IF /\ posted' # posted
                   /\ spoken'[Len(spoken')] = "Your enhanced bid has been successfully placed"
                THEN 2 ELSE 0)
       /\ agent.user_session.successful_commands <= 2 * agent.user_session.command_count
       /\ agent'.performance_metrics.successful_commands
             <= agent'.performance_metrics.commands_processed]_vars

\* a session of one command, a bid that succeeded, summed up at 200%
C30_TwoHundred ==
    /\ loop = "over"
    /\ agent.user_session.command_count = 1
    /\ agent.user_session.successful_commands = 2
    /\ success_rate = << Q(200, 1) >>

=============================================================================
